---- MODULE Spec2Model ----
(***************************************************************************)
(* billbot: the bill store (BillsDO) and the OAuth token store             *)
(* (OAuthTokensDO), each a Durable Object addressed per user with          *)
(* idFromName(userId).  Time is Date.now() in milliseconds.                *)
(***************************************************************************)
EXTENDS Integers, Sequences, FiniteSets, TLC

(***************************************************************************)
(* Bounds of the model.                                                    *)
(***************************************************************************)
\* gmail message ids are 1..MaxMsg
MaxMsg == 52
\* number of storeBills calls in a behaviour
MaxCalls == 2
\* number of clock ticks in a behaviour
MaxTicks == 1
\* number of storeBills requests an instance restored from storage has served
SeedRequests == 24
\* number of storeTokens calls in a behaviour
MaxStores == 2

(***************************************************************************)
(* Program constants.                                                      *)
(***************************************************************************)
MAX_BILLS_PER_USER == 50

TickMs == 60 * 1000

Users == {"u1", "u2"}

MsgIds == 1..MaxMsg

\* ParsedBill values (amount in cents, confidence in hundredths, issue_date
\* as a day number); the two payloads of the upsert test.
Payloads ==
  { [type |-> "electricity", amount |-> 10000, issue_date |-> 15, confidence |-> 90],
    [type |-> "water", amount |-> 10500, issue_date |-> 16, confidence |-> 95] }

VARIABLES
  now,        \* Date.now()
  ticks,      \* clock ticks so far
  bills,      \* bills[d]: the rows of table bills in the BillsDO instance d
  nextId,     \* nextId[d]: the next AUTOINCREMENT id of instance d
  calls,      \* storeBills calls so far
  last,       \* the last completed storeBills call
  tokens,     \* tokens[d]: the rows of table tokens in the OAuthTokensDO instance d
  req,        \* req[p]: request p (refreshIfNeeded or get) on an OAuthTokensDO instance
  stores,     \* storeTokens calls so far
  writes,     \* statements that wrote table tokens so far
  lastStore,  \* the last completed storeTokens call
  ext,        \* the parseBillsInParallel call and its parseBillWithGemini calls
  run,        \* the executeBillScanWorkflow run
  fn,         \* the last call of a function or query that writes nothing
  hook,       \* the last request handled by handleDiscordWebhook
  conv        \* the messages of one user's ConversationDO, in each of its versions

billVars == <<bills, nextId, calls, last>>

tokenVars == <<tokens, req, stores, writes, lastStore>>

pipeVars == <<ext, run, fn, hook, conv>>

vars ==
  <<now, ticks, bills, nextId, calls, last, tokens, req, stores, writes, lastStore,
    ext, run, fn, hook, conv>>

(***************************************************************************)
(* BillsDO                                                                 *)
(***************************************************************************)
\* env.BILLS.idFromName(userId): the instance a user's run talks to
BillsDOForGlobal(userId) == "u1"

BillsDOFor(userId) == userId

\* One INSERT ... ON CONFLICT(gmail_message_id) DO UPDATE SET ... statement:
\* st is [rows, nextId].
UpsertKeepFirst(st, userId, bill, timestamp) ==
  IF \E r \in st.rows : r.gmail_message_id = bill.gmail_message_id
  THEN st
  ELSE [rows |-> st.rows \cup
                   { [id |-> st.nextId, user_id |-> userId, type |-> bill.type,
                      amount |-> bill.amount, issue_date |-> bill.issue_date,
                      gmail_message_id |-> bill.gmail_message_id,
                      confidence |-> bill.confidence, timestamp |-> timestamp] },
        nextId |-> st.nextId + 1]

UpsertAlwaysInsert(st, userId, bill, timestamp) ==
  [rows |-> st.rows \cup
              { [id |-> st.nextId, user_id |-> userId, type |-> bill.type,
                 amount |-> bill.amount, issue_date |-> bill.issue_date,
                 gmail_message_id |-> bill.gmail_message_id,
                 confidence |-> bill.confidence, timestamp |-> timestamp] },
   nextId |-> st.nextId + 1]

Upsert(st, userId, bill, timestamp) ==
  IF \E r \in st.rows : r.gmail_message_id = bill.gmail_message_id
  THEN [rows |-> { IF r.gmail_message_id = bill.gmail_message_id
                   THEN [r EXCEPT !.type = bill.type, !.amount = bill.amount,
                                  !.issue_date = bill.issue_date,
                                  !.confidence = bill.confidence,
                                  !.timestamp = timestamp]
                   ELSE r : r \in st.rows },
        nextId |-> st.nextId]
  ELSE [rows |-> st.rows \cup
                   { [id |-> st.nextId, user_id |-> userId, type |-> bill.type,
                      amount |-> bill.amount, issue_date |-> bill.issue_date,
                      gmail_message_id |-> bill.gmail_message_id,
                      confidence |-> bill.confidence, timestamp |-> timestamp] },
        nextId |-> st.nextId + 1]

\* for (const bill of bills) { this.sql.exec(INSERT ... ON CONFLICT ...) }:
\* the statements for batch[i], batch[i+1], ... in order.  (The test on nxt
\* makes TLC run statement i before it goes on to statement i+1.)
RECURSIVE UpsertAll(_, _, _, _, _)
UpsertAll(st, userId, batch, i, timestamp) ==
  IF i > Len(batch) THEN st
  ELSE LET nxt == Upsert(st, userId, batch[i], timestamp)
       IN IF nxt.nextId > 0 THEN UpsertAll(nxt, userId, batch, i + 1, timestamp)
          ELSE nxt

\* The k-element subsets of E.
RECURSIVE KSubsets(_, _)
KSubsets(E, k) ==
  IF k = 0 THEN {{}}
  ELSE { S \cup {x} : S \in KSubsets(E, k - 1), x \in E } \ KSubsets(E, k - 1)

UserRows(rows, userId) == { r \in rows : r.user_id = userId }

\* (ORDER BY timestamp DESC in the place of ASC)
NewestChoices(rows, userId, n) ==
  LET mine  == UserRows(rows, userId)
      Newer(r) == { s \in mine : s.timestamp > r.timestamp }
      sure  == { r \in mine :
                   Cardinality({ s \in mine : s.timestamp >= r.timestamp }) <= n }
      tied  == { r \in mine \ sure : Cardinality(Newer(r)) < n }
  IN { sure \cup S : S \in KSubsets(tied, n - Cardinality(sure)) }

\* SELECT id FROM bills WHERE user_id = ? ORDER BY timestamp ASC LIMIT ?:
\* the sets of rows the query may return.  SQL leaves the order among rows of
\* equal timestamp open, so every choice among them is a possible result.
OldestChoices(rows, userId, n) ==
  LET mine  == UserRows(rows, userId)
      Older(r) == { s \in mine : s.timestamp < r.timestamp }
      \* the rows that are certainly among the n oldest
      sure  == { r \in mine :
                   Cardinality({ s \in mine : s.timestamp <= r.timestamp }) <= n }
      \* the rows tied at the cut
      tied  == { r \in mine \ sure : Cardinality(Older(r)) < n }
  IN { sure \cup S : S \in KSubsets(tied, n - Cardinality(sure)) }

\* prune(userId): the possible sets of rows deleted.
PruneOffByOne(rows, userId) ==
  LET count == Cardinality(UserRows(rows, userId))
  IN IF count > MAX_BILLS_PER_USER + 1
     THEN OldestChoices(rows, userId, count - (MAX_BILLS_PER_USER + 1))
     ELSE {{}}

PruneDeletions(rows, userId) ==
  LET count == Cardinality(UserRows(rows, userId))
  IN IF count > MAX_BILLS_PER_USER
     THEN OldestChoices(rows, userId, count - MAX_BILLS_PER_USER)
     ELSE {{}}

\* ORDER BY timestamp DESC: SQL leaves the order among rows of equal timestamp
\* open; tie says whether these come by ascending or by descending id
RECURSIVE OrderByTimestampDesc(_, _)
OrderByTimestampDesc(rows, tie) ==
  IF rows = {} THEN << >>
  ELSE LET first == CHOOSE r \in rows :
                      \A s \in rows :
                        \/ s.timestamp < r.timestamp
                        \/ /\ s.timestamp = r.timestamp
                           /\ IF tie = "asc" THEN r.id <= s.id ELSE r.id >= s.id
       IN <<first>> \o OrderByTimestampDesc(rows \ {first}, tie)

\* getRecent(userId, daysBack) at time at: cutoffDate.setDate(getDate() -
\* daysBack) moves the date by whole days of 86400000 ms
GetRecentAfterCutoff(rows, userId, daysBack, at, tie) ==
  LET cutoffTimestamp == at - daysBack * 86400000
  IN OrderByTimestampDesc(
       { r \in rows : r.user_id = userId /\ r.timestamp > cutoffTimestamp }, tie)

GetRecent(rows, userId, daysBack, at, tie) ==
  LET cutoffTimestamp == at - daysBack * 86400000
  IN OrderByTimestampDesc(
       { r \in rows : r.user_id = userId /\ r.timestamp >= cutoffTimestamp }, tie)

\* a bill of a request
Bill(m, p) ==
  [type |-> p.type, amount |-> p.amount, issue_date |-> p.issue_date,
   confidence |-> p.confidence, gmail_message_id |-> m]

\* the bills of one request: message ids s .. s+n-1, all with payload p
Run(s, n, p) == [i \in 1..n |-> Bill(s + i - 1, p)]

\* the first message id no earlier request has stored
FirstNew == 2 * SeedRequests + 1

BatchStarts == {1, FirstNew}

BatchLens == {1, 3, 4}

\* the requests of the model: runs of message ids, and requests that name
\* one message id twice with different values
Batches ==
  { Run(s, n, p) : s \in BatchStarts, n \in BatchLens, p \in Payloads }
  \cup { <<Bill(s, pq[1]), Bill(s, pq[2])>> :
            s \in BatchStarts, pq \in { x \in Payloads \X Payloads : x[1] # x[2] } }

NoCall == [op |-> "none"]

(***************************************************************************)
(* OAuthTokensDO                                                           *)
(***************************************************************************)
\* the requests (refreshIfNeeded or get) of a behaviour
Procs == {"p1", "p2"}

\* access tokens and refresh tokens: those of an authorization (store) and
\* those the token endpoint issues on a refresh
StoreAccess == {"a0"}

StoreRefresh == {"r0"}

Absent == "absent"

\* the 2xx answers of the token endpoint to a refresh: access_token,
\* refresh_token (absent when the endpoint does not rotate it) and expires_in
\* (seconds)
OkReplies ==
  { [access_token |-> "a1", refresh_token |-> Absent, expires_in |-> 3600],
    [access_token |-> "a2", refresh_token |-> "r1", expires_in |-> 600] }

\* expires_in (seconds) of an authorization: 4, 5 and 10 minutes
StoreExpiresIn == {240, 300, 600}

\* rejections of a refresh: status and body, a JSON error object or a body
\* that is not JSON
NotJson == "not json"

Rejections == { <<400, "invalid_grant">>, <<503, NotJson>> }

\* env.OAUTH_TOKENS.idFromName(userId): the instance of a user
TokensDOFor(userId) == userId

\* a response of the Durable Object: status and JSON body
Response(status, error, details, accessToken, refreshToken, expiresAt, refreshed) ==
  [status |-> status, error |-> error, details |-> details,
   accessToken |-> accessToken, refreshToken |-> refreshToken,
   expiresAt |-> expiresAt, refreshed |-> refreshed]

\* 200 with a TokenData body
TokenResponse(accessToken, refreshToken, expiresAt, refreshed) ==
  Response(200, "", "", accessToken, refreshToken, expiresAt, refreshed)

\* an error body
ErrorResponse(status, error, details) ==
  Response(status, error, details, "", "", 0, "")

\* cursor.one() of the SQL storage API returns the row when the result has
\* exactly one row and throws otherwise; the message it throws with no row:
OneThrows == "Expected exactly one result from SQL query, but got no results."

\* SELECT access_token, refresh_token, expires_at FROM tokens LIMIT 1: the
\* rows the query may return (any one row of the table, none when it is empty)
SelectLimit1(rows) == rows

IdleReq ==
  [op |-> "none", pc |-> "idle", inst |-> "", found |-> FALSE, row |-> NoCall, readAt |-> 0,
   seen |-> 0, calls |-> 0, reply |-> NoCall, wrote |-> 0, result |-> NoCall]

\* const bufferMs = 5 * 60 * 1000; needsRefresh = expiresAt - now < bufferMs
NeedsRefreshAtBuffer(expiresAt, t) == expiresAt - t <= 5 * 60 * 1000

NeedsRefresh(expiresAt, t) == expiresAt - t < 5 * 60 * 1000

\* tokens.refresh_token || refreshToken
NewRefreshTokenNoFallback(issued, stored) == issued

NewRefreshToken(issued, stored) == IF issued = Absent THEN stored ELSE issued

\* Date.now() + (expires_in * 1000)
ExpiresAt(t, expiresIn) == t + (expiresIn * 1000)

\* UPDATE tokens SET access_token = ?, refresh_token = ?, expires_at = ?
\*   WHERE user_id = (SELECT user_id FROM tokens LIMIT 1):
\* the tables the statement may leave
UpdateTokensKeepLaterExpiry(rows, accessToken, refreshToken, expiresAt) ==
  { { IF r.user_id = sel.user_id
      THEN [r EXCEPT !.access_token = accessToken, !.refresh_token = refreshToken,
                     !.expires_at = IF r.expires_at > expiresAt THEN r.expires_at
                                    ELSE expiresAt]
      ELSE r : r \in rows } : sel \in SelectLimit1(rows) }

UpdateTokens(rows, accessToken, refreshToken, expiresAt) ==
  IF rows = {} THEN {rows}
  ELSE { { IF r.user_id = sel.user_id
           THEN [r EXCEPT !.access_token = accessToken, !.refresh_token = refreshToken,
                          !.expires_at = expiresAt]
           ELSE r : r \in rows } : sel \in SelectLimit1(rows) }

\* INSERT OR REPLACE INTO tokens (user_id, access_token, refresh_token, expires_at)
InsertOrIgnore(rows, userId, accessToken, refreshToken, expiresAt) ==
  IF \E r \in rows : r.user_id = userId THEN rows
  ELSE rows \cup { [user_id |-> userId, access_token |-> accessToken,
                    refresh_token |-> refreshToken, expires_at |-> expiresAt] }

InsertOrReplace(rows, userId, accessToken, refreshToken, expiresAt) ==
  { r \in rows : r.user_id # userId }
    \cup { [user_id |-> userId, access_token |-> accessToken,
            refresh_token |-> refreshToken, expires_at |-> expiresAt] }


(***************************************************************************)
(* parseBillWithGemini and parseBillsInParallel                            *)
(***************************************************************************)
\* const CONFIDENCE_THRESHOLD = 0.7, in hundredths as every confidence here
CONFIDENCE_THRESHOLD == 70

\* const MAX_RETRIES = 1
MAX_RETRIES == 1

\* a value that is undefined: a hint, the subjectHints array, the config
Undefined == "undefined"

NoHints == [defined |-> FALSE]

Hints(list) == [defined |-> TRUE, list |-> list]

NoConfig == [defined |-> FALSE]

BillTypes == {"electricity", "hot_water", "water", "internet"}

\* ids of Gmail messages
MessageIds == {1, 2, 3}

\* ParsedBillSchema: type of the enum, amount positive, issue_date a datetime
\* string (here a day number, 0 for a string that is no datetime), confidence
\* in [0, 1]
SchemaValid(obj) ==
  /\ obj.type \in BillTypes
  /\ obj.amount > 0
  /\ obj.issue_date > 0
  /\ obj.confidence >= 0 /\ obj.confidence <= 100

\* what the model may answer to one invocation: an object (amount in cents,
\* confidence in hundredths), schema-valid or not, or an error of the gateway
ModelObjects ==
  { [type |-> "water", amount |-> 4520, issue_date |-> 8, confidence |-> 69],
    [type |-> "electricity", amount |-> 12845, issue_date |-> 15, confidence |-> 70],
    [type |-> "hot_water", amount |-> 3250, issue_date |-> 10, confidence |-> 95],
    [type |-> "internet", amount |-> 7999, issue_date |-> 12, confidence |-> 120] }

ModelOutcomes ==
  { [kind |-> "object", object |-> o] : o \in ModelObjects }
    \cup { [kind |-> "throws", error |-> "Gemini API error"] }

\* an Error value: name, message and, for a BillParserError, its cause
Err(name, message, cause) == [name |-> name, message |-> message, cause |-> cause]

NoCause == [name |-> "none"]

\* generateObject({model, schema, messages}): the object when the answer
\* matches the schema; it rejects when the gateway fails or the answer does
\* not match the schema
GenerateObject(outcome) ==
  IF outcome.kind = "throws"
  THEN [ok |-> FALSE, error |-> Err("Error", outcome.error, NoCause)]
  ELSE IF ~SchemaValid(outcome.object)
       THEN [ok |-> FALSE,
             error |-> Err("NoObjectGeneratedError",
                           "response did not match schema", NoCause)]
       ELSE [ok |-> TRUE, object |-> outcome.object]

\* if (parsedBill.confidence < CONFIDENCE_THRESHOLD) throw ...
LowConfidenceAtThreshold(parsedBill) == parsedBill.confidence <= CONFIDENCE_THRESHOLD

LowConfidence(parsedBill) == parsedBill.confidence < CONFIDENCE_THRESHOLD

\* if (attempt < MAX_RETRIES): the loop runs once more
RetryLeftOneMore(attempt) == attempt <= MAX_RETRIES

RetryLeft(attempt) == attempt < MAX_RETRIES

\* lastError = error instanceof Error ? error : new Error(...): every error
\* here is an Error
LastErrorKeepFirst(lastError, error) == IF lastError = NoCause THEN error ELSE lastError

LastError(lastError, error) == error

\* a parseBillWithGemini call before its loop: createGateway({apiKey:
\* config.apiKey}) throws a TypeError when config is undefined
ParseStart(hint, config) ==
  IF ~config.defined
  THEN [pc |-> "rejected", hint |-> hint, attempt |-> 0, invocations |-> 0,
        waits |-> 0, log |-> << >>, lastError |-> NoCause, value |-> NoCall,
        reason |-> Err("TypeError", "Cannot read properties of undefined", NoCause)]
  ELSE [pc |-> "attempt", hint |-> hint, attempt |-> 0, invocations |-> 0,
        waits |-> 0, log |-> << >>, lastError |-> NoCause, value |-> NoCall,
        reason |-> NoCause]

\* one pass of the loop of parseBillWithGemini: the invocation of the model,
\* the confidence gate, the catch block with its wait, and after the last
\* pass the throw of lines 100-103
ParseAttempt(c, outcome) ==
  LET r == GenerateObject(outcome)
      failed == ~r.ok \/ LowConfidence(r.object)
      error == IF ~r.ok THEN r.error
               ELSE Err("BillParserError", "Low confidence score", NoCause)
      lastError == LastError(c.lastError, error)
      logged == Append(c.log, [outcome |-> outcome, failed |-> failed, error |->
                                 IF failed THEN error ELSE NoCause])
  IN IF ~failed
     THEN [c EXCEPT !.pc = "fulfilled", !.invocations = c.invocations + 1,
                    !.log = logged, !.value = r.object]
     ELSE IF RetryLeft(c.attempt)
          THEN [c EXCEPT !.attempt = c.attempt + 1, !.invocations = c.invocations + 1,
                         !.waits = c.waits + 1, !.log = logged,
                         !.lastError = lastError]
          ELSE [c EXCEPT !.pc = "rejected", !.attempt = c.attempt + 1,
                         !.invocations = c.invocations + 1, !.log = logged,
                         !.lastError = lastError,
                         !.reason = Err("BillParserError",
                                        "Failed to parse bill after 2 attempts",
                                        lastError)]

\* subjectHints?.[index]
HintAt(subjectHints, index) ==
  IF ~subjectHints.defined THEN Undefined
  ELSE IF index <= Len(subjectHints.list) THEN subjectHints.list[index] ELSE Undefined

\* results.filter(fulfilled).map(value): bill and message id of the calls that
\* returned, in the order of attachments
RECURSIVE SuccessfulBillsFirstIds(_, _, _)
SuccessfulBillsFirstIds(attachments, cs, i) ==
  IF i > Len(cs) THEN << >>
  ELSE LET rest == SuccessfulBillsFirstIds(attachments, cs, i + 1)
       IN IF cs[i].pc = "fulfilled"
          THEN <<[bill |-> cs[i].value, messageId |-> attachments[1].messageId]>> \o rest
          ELSE rest

RECURSIVE SuccessfulBills(_, _, _)
SuccessfulBills(attachments, cs, i) ==
  IF i > Len(cs) THEN << >>
  ELSE LET rest == SuccessfulBills(attachments, cs, i + 1)
       IN IF cs[i].pc = "fulfilled"
          THEN <<[bill |-> cs[i].value, messageId |-> attachments[i].messageId]>> \o rest
          ELSE rest

IdleExt == [pc |-> "idle", attachments |-> << >>, calls |-> << >>, result |-> << >>]

(***************************************************************************)
(* Messages of errors and formatErrorResponse, formatBillSummary           *)
(***************************************************************************)
\* An error message is the sequence of its characters.
\* "Failed to get access token"
FailedToGetAccessToken ==
  <<"F", "a", "i", "l", "e", "d", " ", "t", "o", " ", "g", "e", "t", " ", "a", "c",
    "c", "e", "s", "s", " ", "t", "o", "k", "e", "n">>

\* the texts of searchEmails: "Gmail API search failed: " before the status
\* text of the response ("Unauthorized", "Too Many Requests", "Internal Server
\* Error"), "Failed to search emails: " before the message of what fetch or
\* json() threw ("Network connection lost", "Unexpected token < in JSON at
\* position 0")
SearchTexts ==
  [ gmailSearchFailed |->
       <<"G", "m", "a", "i", "l", " ", "A", "P", "I", " ", "s", "e", "a", "r", "c",
       "h", " ", "f", "a", "i", "l", "e", "d", ":", " ">>,
    failedToSearchEmails |->
       <<"F", "a", "i", "l", "e", "d", " ", "t", "o", " ", "s", "e", "a", "r", "c",
       "h", " ", "e", "m", "a", "i", "l", "s", ":", " ">>,
    statusUnauthorized |->
       <<"U", "n", "a", "u", "t", "h", "o", "r", "i", "z", "e", "d">>,
    statusTooManyRequests |->
       <<"T", "o", "o", " ", "M", "a", "n", "y", " ", "R", "e", "q", "u", "e", "s",
       "t", "s">>,
    statusInternalServerError |->
       <<"I", "n", "t", "e", "r", "n", "a", "l", " ", "S", "e", "r", "v", "e", "r",
       " ", "E", "r", "r", "o", "r">>,
    networkConnectionLost |->
       <<"N", "e", "t", "w", "o", "r", "k", " ", "c", "o", "n", "n", "e", "c", "t",
       "i", "o", "n", " ", "l", "o", "s", "t">>,
    unexpectedTokenInJson |->
       <<"U", "n", "e", "x", "p", "e", "c", "t", "e", "d", " ", "t", "o", "k", "e",
       "n", " ", "<", " ", "i", "n", " ", "J", "S", "O", "N", " ", "a", "t", " ", "p",
       "o", "s", "i", "t", "i", "o", "n", " ", "0">> ]

\* "Unknown error"
UnknownError ==
  <<"U", "n", "k", "n", "o", "w", "n", " ", "e", "r", "r", "o", "r">>

\* the words formatErrorResponse looks for: "oauth", "token", "unauthorized",
\* "rate limit"
ErrorKeywords ==
  [ oauth |-> <<"o", "a", "u", "t", "h">>,
    token |-> <<"t", "o", "k", "e", "n">>,
    unauthorized |-> <<"u", "n", "a", "u", "t", "h", "o", "r", "i", "z", "e", "d">>,
    rateLimit |-> <<"r", "a", "t", "e", " ", "l", "i", "m", "i", "t">> ]

\* String.prototype.toLowerCase
ToLowerChar(c) ==
  CASE c = "A" -> "a" []
       c = "B" -> "b" []
       c = "C" -> "c" []
       c = "D" -> "d" []
       c = "E" -> "e" []
       c = "F" -> "f" []
       c = "G" -> "g" []
       c = "H" -> "h" []
       c = "I" -> "i" []
       c = "J" -> "j" []
       c = "K" -> "k" []
       c = "L" -> "l" []
       c = "M" -> "m" []
       c = "N" -> "n" []
       c = "O" -> "o" []
       c = "P" -> "p" []
       c = "Q" -> "q" []
       c = "R" -> "r" []
       c = "S" -> "s" []
       c = "T" -> "t" []
       c = "U" -> "u" []
       c = "V" -> "v" []
       c = "W" -> "w" []
       c = "X" -> "x" []
       c = "Y" -> "y" []
       c = "Z" -> "z" []
       OTHER -> c

ToLowerCase(str) == [i \in 1..Len(str) |-> ToLowerChar(str[i])]

\* String.prototype.includes
Includes(str, sub) ==
  \E i \in 1..(Len(str) - Len(sub) + 1) : SubSeq(str, i, i + Len(sub) - 1) = sub

\* the three texts of formatErrorResponse; the generic one carries the
\* message of the error
ReauthorizeText ==
  [text |-> "Your Gmail connection expired. Please run /bill connect to re-authorize.",
   message |-> << >>]

RateLimitText ==
  [text |-> "Gmail API rate limit reached. Please try again in a few minutes.",
   message |-> << >>]

GenericErrorText(message) ==
  [text |-> "An error occurred: (message) Please try again or contact support.",
   message |-> message]

\* formatErrorResponse(error)
FormatErrorResponseNoToken(errorMessage) ==
  LET message == ToLowerCase(errorMessage)
  IN IF Includes(message, ErrorKeywords.oauth) \/ Includes(message, ErrorKeywords.unauthorized)
     THEN ReauthorizeText
     ELSE IF Includes(message, ErrorKeywords.rateLimit) THEN RateLimitText
          ELSE GenericErrorText(errorMessage)

\* formatErrorResponse(error), of the message of the error
FormatErrorResponseRateFirst(errorMessage) ==
  LET message == ToLowerCase(errorMessage)
  IN IF Includes(message, ErrorKeywords.rateLimit) THEN RateLimitText
     ELSE IF Includes(message, ErrorKeywords.oauth) \/ Includes(message, ErrorKeywords.token)
               \/ Includes(message, ErrorKeywords.unauthorized)
          THEN ReauthorizeText
          ELSE GenericErrorText(errorMessage)

FormatErrorResponse(errorMessage) ==
  LET message == ToLowerCase(errorMessage)
  IN IF Includes(message, ErrorKeywords.oauth) \/ Includes(message, ErrorKeywords.token)
          \/ Includes(message, ErrorKeywords.unauthorized)
     THEN ReauthorizeText
     ELSE IF Includes(message, ErrorKeywords.rateLimit) THEN RateLimitText
          ELSE GenericErrorText(errorMessage)

\* formatBillSummary(bills): the fixed text for an empty list
NoBillsFoundText == [text |-> "No bills found in the last 30 days.", message |-> << >>]

\* issue_date is counted in days, 1 for 2026-01-01T00:00:00.000Z; new
\* Date(a) > new Date(b)
Later(a, b) == a > b

\* if (!existing || new Date(bill.issue_date) > new Date(existing.issue_date))
ReplacesAlways(bill, existing) == TRUE

Replaces(bill, existing) == Later(bill.issue_date, existing.issue_date)

\* bills.forEach(...): billsByType after the bills i, i+1, ...; keys lists the
\* types in the order in which they were first set
RECURSIVE GroupByType(_, _, _)
GroupByType(billList, i, group) ==
  IF i > Len(billList) THEN group
  ELSE LET bill == billList[i]
           has  == bill.type \in DOMAIN group.billsByType
       IN IF ~has
          THEN GroupByType(billList, i + 1,
                 [billsByType |-> [t \in DOMAIN group.billsByType \cup {bill.type} |->
                                     IF t = bill.type THEN bill ELSE group.billsByType[t]],
                  keys |-> Append(group.keys, bill.type)])
          ELSE IF Replaces(bill, group.billsByType[bill.type])
               THEN GroupByType(billList, i + 1,
                      [group EXCEPT !.billsByType[bill.type] = bill])
               ELSE GroupByType(billList, i + 1, group)

EmptyGroup == [billsByType |-> [t \in {} |-> NoCall], keys |-> << >>]

\* amount.toFixed(2) of an amount of whole cents
ToFixed2(amount) == [dollars |-> amount \div 100, cents |-> amount % 100]

\* formatDate(isoDate): toLocaleDateString('en-AU', {month: 'short', day:
\* 'numeric'}) for the days of December 2025 to February 2026
FormatDate(issue_date) ==
  IF issue_date <= 0 THEN [day |-> issue_date + 31, month |-> "Dec"]
  ELSE IF issue_date <= 31 THEN [day |-> issue_date, month |-> "Jan"]
       ELSE [day |-> issue_date - 31, month |-> "Feb"]

OrderedTypes == <<"electricity", "hot_water", "water", "internet">>

TypeLabel(type) ==
  CASE type = "electricity" -> "Electricity"
    [] type = "hot_water" -> "Hot Water"
    [] type = "water" -> "Water"
    [] type = "internet" -> "Internet"

\* the link of a line: bill.gmail_message_id, undefined for a ParsedBill
GmailLink(bill) ==
  IF "gmail_message_id" \in DOMAIN bill
  THEN [defined |-> TRUE, id |-> bill.gmail_message_id]
  ELSE [defined |-> FALSE]

\* orderedTypes.forEach(...): the lines of the types from i on
RECURSIVE SummaryLines(_, _)
SummaryLines(billsByType, i) ==
  IF i > Len(OrderedTypes) THEN << >>
  ELSE IF OrderedTypes[i] \in DOMAIN billsByType
       THEN LET bill == billsByType[OrderedTypes[i]]
            IN <<[label |-> TypeLabel(OrderedTypes[i]), amount |-> ToFixed2(bill.amount),
                  date |-> FormatDate(bill.issue_date), link |-> GmailLink(bill)]>>
                 \o SummaryLines(billsByType, i + 1)
       ELSE SummaryLines(billsByType, i + 1)

\* Object.values(billsByType).reduce((sum, bill) => sum + bill.amount, 0)
RECURSIVE SumOfValues(_, _)
SumOfValues(group, k) ==
  IF k > Len(group.keys) THEN 0
  ELSE group.billsByType[group.keys[k]].amount + SumOfValues(group, k + 1)

FormatBillSummary(billList) ==
  IF Len(billList) = 0 THEN NoBillsFoundText
  ELSE LET group == GroupByType(billList, 1, EmptyGroup)
       IN [text |-> "Bills for last 30 days:", message |-> << >>,
           lines |-> SummaryLines(group.billsByType, 1),
           total |-> ToFixed2(SumOfValues(group, 1))]

(***************************************************************************)
(* categorizeBySubject                                                     *)
(***************************************************************************)
\* null
Null == "null"

\* the keywords of ORIGIN_CONFIG.subjectKeywords: "electricity", "power",
\* "energy bill", "hot water", "gas", "heating", "water bill", "water usage",
\* "internet", "broadband", "nbn"
Keywords ==
  [ electricity |-> <<"e", "l", "e", "c", "t", "r", "i", "c", "i", "t", "y">>,
    power |-> <<"p", "o", "w", "e", "r">>,
    energyBill |-> <<"e", "n", "e", "r", "g", "y", " ", "b", "i", "l", "l">>,
    hotWater |-> <<"h", "o", "t", " ", "w", "a", "t", "e", "r">>,
    gas |-> <<"g", "a", "s">>,
    heating |-> <<"h", "e", "a", "t", "i", "n", "g">>,
    waterBill |-> <<"w", "a", "t", "e", "r", " ", "b", "i", "l", "l">>,
    waterUsage |-> <<"w", "a", "t", "e", "r", " ", "u", "s", "a", "g", "e">>,
    internet |-> <<"i", "n", "t", "e", "r", "n", "e", "t">>,
    broadband |-> <<"b", "r", "o", "a", "d", "b", "a", "n", "d">>,
    nbn |-> <<"n", "b", "n">> ]

\* ORIGIN_CONFIG.subjectKeywords, in the order of Object.entries
SubjectKeywordsWaterFirst ==
  << [billType |-> "electricity",
      keywords |-> <<Keywords.electricity, Keywords.power, Keywords.energyBill>>],
     [billType |-> "water", keywords |-> <<Keywords.waterBill, Keywords.waterUsage>>],
     [billType |-> "hot_water", keywords |-> <<Keywords.hotWater, Keywords.gas, Keywords.heating>>],
     [billType |-> "internet",
      keywords |-> <<Keywords.internet, Keywords.broadband, Keywords.nbn>>] >>

SubjectKeywords ==
  << [billType |-> "electricity",
      keywords |-> <<Keywords.electricity, Keywords.power, Keywords.energyBill>>],
     [billType |-> "hot_water", keywords |-> <<Keywords.hotWater, Keywords.gas, Keywords.heating>>],
     [billType |-> "water", keywords |-> <<Keywords.waterBill, Keywords.waterUsage>>],
     [billType |-> "internet",
      keywords |-> <<Keywords.internet, Keywords.broadband, Keywords.nbn>>] >>

\* the two loops of categorizeBySubject from entry t, keyword k on: the bill
\* type of the first keyword the normalized subject includes, or null
RECURSIVE FirstMatch(_, _, _)
FirstMatch(normalizedSubject, t, k) ==
  IF t > Len(SubjectKeywords) THEN Null
  ELSE IF k > Len(SubjectKeywords[t].keywords)
       THEN FirstMatch(normalizedSubject, t + 1, 1)
       ELSE IF Includes(normalizedSubject, ToLowerCase(SubjectKeywords[t].keywords[k]))
            THEN SubjectKeywords[t].billType
            ELSE FirstMatch(normalizedSubject, t, k + 1)

\* categorizeBySubject(subject)
CategorizeBySubject(subject) == FirstMatch(ToLowerCase(subject), 1, 1)

\* the words of the subjects: "Your", "Electricity", "Bill", "Monthly",
\* "Internet", "Invoice", "Welcome", "to our", "newsletter", "HOT", "water",
\* "Gas", "energy", "usage", "Powerful"
Vocabulary ==
  [ your |-> <<"Y", "o", "u", "r">>,
    electricity |-> <<"E", "l", "e", "c", "t", "r", "i", "c", "i", "t", "y">>,
    bill |-> <<"B", "i", "l", "l">>,
    monthly |-> <<"M", "o", "n", "t", "h", "l", "y">>,
    internet |-> <<"I", "n", "t", "e", "r", "n", "e", "t">>,
    invoice |-> <<"I", "n", "v", "o", "i", "c", "e">>,
    welcome |-> <<"W", "e", "l", "c", "o", "m", "e">>,
    toOur |-> <<"t", "o", " ", "o", "u", "r">>,
    newsletter |-> <<"n", "e", "w", "s", "l", "e", "t", "t", "e", "r">>,
    hot |-> <<"H", "O", "T">>,
    water |-> <<"w", "a", "t", "e", "r">>,
    gas |-> <<"G", "a", "s">>,
    energy |-> <<"e", "n", "e", "r", "g", "y">>,
    usage |-> <<"u", "s", "a", "g", "e">>,
    powerful |-> <<"P", "o", "w", "e", "r", "f", "u", "l">> ]

\* the subjects categorizeBySubject is applied to: up to MaxWords words,
\* separated by single spaces
MaxWords == 3

Words == { Vocabulary[w] : w \in DOMAIN Vocabulary }

RECURSIVE Join(_, _)
Join(ws, i) ==
  IF i > Len(ws) THEN << >>
  ELSE IF i = Len(ws) THEN ws[i]
       ELSE ws[i] \o <<" ">> \o Join(ws, i + 1)

Subjects == { Join(ws, 1) : ws \in UNION { [1..n -> Words] : n \in 0..MaxWords } }

(***************************************************************************)
(* ConversationDO, in its three versions                                   *)
(***************************************************************************)
MAX_MESSAGES == 50

\* addMessage of the version that keeps this.messages: push, then
\* slice(-MAX_MESSAGES) when there are more
AddMessageInMemory(messages, message) ==
  LET pushed == Append(messages, message)
  IN IF Len(pushed) > MAX_MESSAGES
     THEN SubSeq(pushed, Len(pushed) - MAX_MESSAGES + 1, Len(pushed))
     ELSE pushed

\* addMessage of the version with table messages (id INTEGER PRIMARY KEY):
\* DELETE the rows of lowest id, LIMIT MAX(0, COUNT(*) - ? + 1) with
\* MAX_MESSAGES - 1 for the parameter, then INSERT with the next row id
AddMessage(rows, message) ==
  LET count   == Cardinality(rows)
      surplus == count - (MAX_MESSAGES - 1) + 1
      limit   == IF surplus > 0 THEN surplus ELSE 0
      deleted == { r \in rows : Cardinality({ q \in rows : q.id < r.id }) < limit }
      kept    == rows \ deleted
      id      == IF kept = {} THEN 1
                 ELSE 1 + (CHOOSE n \in { r.id : r \in kept } : \A r \in kept : r.id <= n)
  IN kept \cup { [id |-> id, role |-> message.role, content |-> message.content,
                  timestamp |-> message.timestamp] }

\* addMessage of the version with table conversation_messages (id INTEGER
\* PRIMARY KEY AUTOINCREMENT): INSERT, then DELETE the rows after the first
\* MAX_MESSAGES in ORDER BY timestamp DESC (LIMIT -1 OFFSET ?)
AddMessageByTimestamp(st, message, tie) ==
  LET inserted == st.rows \cup { [id |-> st.nextId, role |-> message.role,
                                   content |-> message.content,
                                   timestamp |-> message.timestamp] }
      ordered  == OrderByTimestampDesc(inserted, tie)
  IN [rows |-> { ordered[i] : i \in { j \in 1..Len(ordered) : j <= MAX_MESSAGES } },
      nextId |-> st.nextId + 1]

\* getHistory of a version: this.messages, or the rows ORDER BY id ASC, or the
\* rows ORDER BY timestamp ASC, where SQL leaves the order of rows of equal
\* timestamp open
GetHistory(version, tie) ==
  LET ById(rows) ==
        [i \in 1..Cardinality(rows) |->
           CHOOSE r \in rows : Cardinality({ q \in rows : q.id < r.id }) = i - 1]
      ByTimestamp(rows) ==
        LET desc == OrderByTimestampDesc(rows, tie)
        IN [i \in 1..Len(desc) |-> desc[Len(desc) + 1 - i]]
      Message(r) == [role |-> r.role, content |-> r.content, timestamp |-> r.timestamp]
      rows == CASE version = "memory" -> conv.memory
                [] version = "sql" -> ById(conv.sql)
                [] version = "byTimestamp" -> ByTimestamp(conv.byTimestamp.rows)
  IN [i \in 1..Len(rows) |-> Message(rows[i])]

(***************************************************************************)
(* handleDiscordWebhook                                                    *)
(***************************************************************************)
\* env.ALLOWED_USER_IDS, split and trimmed
AllowedUserIdsAndU9 == {"u1", "u2", "u9"}

AllowedUserIds == {"u1", "u2"}

\* the requests: the signature headers, the interaction type, the user id of
\* the interaction (or none), the command, its first option's name (or none)
\* and whether the option message has a value
WebhookRequests ==
  [signature : {"missing", "invalid", "valid"},
   type : {"PING", "APPLICATION_COMMAND", "MESSAGE_COMPONENT"},
   userId : {"u1", "u2", "u9", Undefined},
   commandName : {"chat", "clear", "bill", "other"},
   subcommand : {"connect", "search", Undefined},
   message : BOOLEAN]

\* new Response(JSON.stringify({type: 4, data: {content, flags: 64}}))
ChannelMessage(content) ==
  [status |-> 200, type |-> 4, content |-> content, background |-> "none",
   calls |-> << >>]

\* the response of handleDiscordWebhook, the task it hands to ctx.waitUntil
\* and the requests it has sent to Durable Objects and to the AI provider;
\* throws: the call the branch makes (clearHistory, createAuthorizationURL)
\* throws
HandleDiscordWebhook(request, throws) ==
  IF request.signature # "valid"
  THEN [status |-> 401, type |-> 0, content |-> "Invalid signature", background |-> "none",
        calls |-> << >>]
  ELSE IF request.type = "PING"
  THEN [status |-> 200, type |-> 1, content |-> "", background |-> "none",
        calls |-> << >>]
  ELSE IF request.type # "APPLICATION_COMMAND"
  THEN [status |-> 200, type |-> 0, content |-> "Event not handled", background |-> "none",
        calls |-> << >>]
  ELSE IF request.userId = Undefined
  THEN ChannelMessage("Unable to identify user.")
  ELSE IF request.userId \notin AllowedUserIds
  THEN ChannelMessage("You are not authorized to use this bot.")
  ELSE IF request.commandName = "chat"
  THEN IF ~request.message THEN ChannelMessage("Please provide a message.")
       ELSE [status |-> 200, type |-> 5, content |-> "", background |-> "chat",
             calls |-> << >>]
  ELSE IF request.commandName = "clear"
  THEN IF throws
       THEN [ChannelMessage("Error: clearHistory failed")
               EXCEPT !.calls = <<"CONVERSATIONS clear">>]
       ELSE [ChannelMessage("Conversation history cleared!")
               EXCEPT !.calls = <<"CONVERSATIONS clear">>]
  ELSE IF request.commandName = "bill"
  THEN IF request.subcommand = "connect"
       THEN IF throws THEN ChannelMessage("Failed to generate authorization link")
            ELSE ChannelMessage("Connect Your Gmail Account")
       ELSE IF request.subcommand = "search"
       THEN ChannelMessage("Bill Search - Coming Soon")
       ELSE ChannelMessage("Please use a subcommand")
  ELSE ChannelMessage("Unknown command.")

(***************************************************************************)
(* executeBillScanWorkflow and sendWorkflowResult                          *)
(***************************************************************************)
\* the actions the switch of OAuthTokensDO.fetch names, and its handler for a
\* request: the default branch answers 400 'Unknown action'
TokenActions == {"store", "get", "refreshIfNeeded"}

TokenHandler(action) == IF action \in TokenActions THEN action ELSE "unknown"

\* the action refreshTokenIfNeeded sends
RunTokenAction == "getAccessToken"

\* env is typed any: env.OAUTH_TOKENS is the namespace of OAuthTokensDO, as
\* the worker binds it, or an object the caller of executeBillScanWorkflow
\* supplies
EnvTokenStores == {"OAuthTokensDO", "supplied"}

\* what a supplied env.OAUTH_TOKENS answers: 2xx with an accessToken, or not 2xx
SuppliedAnswers ==
  { [ok |-> TRUE, status |-> 200, accessToken |-> "ya29"],
    [ok |-> FALSE, status |-> 404, accessToken |-> Undefined] }

\* the response refreshTokenIfNeeded gets for its request
TokenStoreAnswers(env) ==
  IF env = "OAuthTokensDO"
  THEN IF TokenHandler(RunTokenAction) = "unknown"
       THEN { [ok |-> FALSE, status |-> 400, accessToken |-> Undefined] }
       ELSE {}
  ELSE SuppliedAnswers

\* WorkflowResult
Success(billList) == [success |-> TRUE, bills |-> billList, error |-> << >>]

\* the catch block of executeBillScanWorkflow: error.message of an Error
WorkflowCatchAsSuccess(errorMessage) == Success(<< >>)

WorkflowCatch(errorMessage) ==
  [success |-> FALSE, bills |-> << >>, error |-> errorMessage]

\* if (messages.length === 0), if (filteredMessages.length === 0),
\* if (pdfs.length === 0)
NoneLeftNever(list) == FALSE

NoneLeft(list) == Len(list) = 0

\* the answers of the Gmail API to the search: a list of messages, a status
\* that is not 2xx with its statusText, or a failure of fetch or of
\* response.json() with its message
MaxMessages == 2

DistinctSeqs(E, n) == { q \in [1..n -> E] : \A i, j \in 1..n : i # j => q[i] # q[j] }

MessageLists == UNION { DistinctSeqs(MessageIds, n) : n \in 0..MaxMessages }

SearchOutcomes ==
  { [kind |-> "messages", messages |-> l, message |-> << >>] : l \in MessageLists }
    \cup { [kind |-> "status", messages |-> << >>, message |-> t] :
             t \in {SearchTexts.statusUnauthorized, SearchTexts.statusTooManyRequests, SearchTexts.statusInternalServerError} }
    \cup { [kind |-> "throws", messages |-> << >>, message |-> t] :
             t \in {SearchTexts.networkConnectionLost, SearchTexts.unexpectedTokenInJson} }

\* searchEmails(token, query): data.messages || [], or the message of the
\* GmailAPIError it throws
SearchEmails(outcome) ==
  CASE outcome.kind = "messages" ->
         [ok |-> TRUE, messages |-> outcome.messages, error |-> << >>]
    [] outcome.kind = "status" ->
         [ok |-> FALSE, messages |-> << >>, error |-> SearchTexts.gmailSearchFailed \o outcome.message]
    [] OTHER ->
         [ok |-> FALSE, messages |-> << >>, error |-> SearchTexts.failedToSearchEmails \o outcome.message]

\* filterMessagesBySubject: per message, getEmailDetails throws or answers
\* with the details of the message, of which the filter reads the subject
DetailOutcomes ==
  { [kind |-> "throws", subject |-> << >>] }
    \cup { [kind |-> "details", subject |-> t] : t \in {Join(<<Vocabulary.your, Vocabulary.electricity, Vocabulary.bill>>, 1), Join(<<Vocabulary.welcome, Vocabulary.toOur, Vocabulary.newsletter>>, 1)} }

RECURSIVE FilterMessagesBySubjectHinted(_, _, _)
FilterMessagesBySubjectHinted(messages, outs, i) ==
  IF i > Len(messages) THEN << >>
  ELSE LET rest == FilterMessagesBySubjectHinted(messages, outs, i + 1)
       IN IF outs[i].kind = "throws" \/ CategorizeBySubject(outs[i].subject) = Null
          THEN rest
          ELSE <<[messageId |-> messages[i], subject |-> outs[i].subject,
                  subjectHint |-> CategorizeBySubject(outs[i].subject)]>> \o rest

RECURSIVE FilterMessagesBySubject(_, _, _)
FilterMessagesBySubject(messages, outs, i) ==
  IF i > Len(messages) THEN << >>
  ELSE LET rest == FilterMessagesBySubject(messages, outs, i + 1)
       IN IF outs[i].kind = "throws" THEN rest
          ELSE <<[messageId |-> messages[i], subject |-> outs[i].subject,
                  subjectHint |-> CategorizeBySubject(outs[i].subject)]>> \o rest

\* filteredMessages.slice(0, 10)
FETCH_LIMIT == 10

SliceAll(list, n) == list

Slice(list, n) == SubSeq(list, 1, IF Len(list) < n THEN Len(list) ELSE n)

\* downloadPDFAttachments: per message, the message has a PDF attachment and
\* it is downloaded, it has none, or a fetch throws
FetchOutcomes == {"pdf", "nopdf", "throws"}

\* the callback of message i reaches pdfs.push: the message has a PDF
\* attachment and neither getEmailDetails nor downloadAttachment threw
DownloadedOrThrew(outs, i) == outs[i] # "nopdf"

Downloaded(outs, i) == outs[i] = "pdf"

\* downloadAttachment(token, messageId, attachmentId): the data of the first
\* PDF attachment of the message
DownloadAttachment(messageId) == [data |-> messageId]

\* the element the callback of message i pushes
PdfAt(messages, i) ==
  [messageId |-> messages[i].messageId,
   attachment |-> DownloadAttachment(messages[i].messageId),
   subjectHint |-> messages[i].subjectHint]

\* pdfs after Promise.allSettled: one element per callback that pushed, in
\* the order in which the callbacks reached the push
IsPdfList(pdfs, messages, outs) ==
  LET got == { i \in 1..Len(messages) : Downloaded(outs, i) }
  IN /\ Len(pdfs) = Cardinality(got)
     /\ \A i \in got : \E k \in 1..Len(pdfs) : pdfs[k] = PdfAt(messages, i)

PdfLists(messages, outs) ==
  LET got == { i \in 1..Len(messages) : Downloaded(outs, i) }
  IN { [k \in 1..Cardinality(got) |-> PdfAt(messages, f[k])] :
       f \in { g \in [1..Cardinality(got) -> got] :
                 \A a, b \in 1..Cardinality(got) : a # b => g[a] # g[b] } }

\* pdfs.map(pdf => pdf.subjectHint).filter(hint => hint !== null)
RECURSIVE NonNullHints(_, _)
NonNullHints(pdfs, i) ==
  IF i > Len(pdfs) THEN << >>
  ELSE IF pdfs[i].subjectHint = Null THEN NonNullHints(pdfs, i + 1)
       ELSE <<pdfs[i].subjectHint>> \o NonNullHints(pdfs, i + 1)

\* parsedBills.map(pb => ({...pb.bill, gmail_message_id: pb.messageId}))
BillsToStore(parsedBills) ==
  [i \in 1..Len(parsedBills) |->
     [gmail_message_id |-> parsedBills[i].messageId, type |-> parsedBills[i].bill.type,
      amount |-> parsedBills[i].bill.amount, issue_date |-> parsedBills[i].bill.issue_date,
      confidence |-> parsedBills[i].bill.confidence]]

\* what the /store request of storeBills meets: BillsDO.storeBills completes
\* and fetch answers 200; an sql.exec of storeBills or prune throws after a
\* prefix of the upserts and the catch block of BillsDO.fetch answers 500; or
\* billsStub.fetch itself rejects
StoreOutcomes == {"ok", "fault", "rejects"}

\* storeBills of billParser.ts awaits billsStub.fetch and does not read the
\* response: it throws only when the fetch rejects
StoreBillsThrows(outcome) == outcome = "rejects"

IdleRun ==
  [pc |-> "idle", userId |-> "", env |-> "", token |-> Undefined,
   search |-> "none", messages |-> << >>,
   filtered |-> << >>, pdfs |-> << >>, calls |-> << >>, parsed |-> << >>,
   filterOuts |-> << >>, fetchOuts |-> << >>, persist |-> "none", sent |-> 0,
   trace |-> << >>, result |-> NoCall, content |-> NoCall, billsBefore |-> << >>]

\* The constructor runs CREATE TABLE IF NOT EXISTS on the instance's durable
\* storage, so an instance starts with the rows its earlier requests left.
\* Restored(userId, k) is the storage after k storeBills requests, one tick
\* apart, of two new bills each.
RECURSIVE Restored(_, _)
Restored(userId, k) ==
  IF k = 0 THEN [rows |-> {}, nextId |-> 1]
  ELSE LET prev == Restored(userId, k - 1)
           p0   == CHOOSE p \in Payloads : p.type = "electricity"
           st   == UpsertAll(prev, userId, Run(2 * k - 1, 2, p0), 1, k * TickMs)
           del  == CHOOSE d \in PruneDeletions(st.rows, userId) : TRUE
       IN IF prev.nextId > 0 THEN [rows |-> st.rows \ del, nextId |-> st.nextId]
          ELSE prev

\* u1's instance has served SeedRequests requests, u2's instance is new
InitStores ==
  /\ now = SeedRequests * TickMs
  /\ ticks = 0
  /\ bills = [d \in Users |-> IF d = "u1" THEN Restored(d, SeedRequests).rows ELSE {}]
  /\ nextId = [d \in Users |-> IF d = "u1" THEN Restored(d, SeedRequests).nextId ELSE 1]
  /\ calls = 0
  /\ last = NoCall
  /\ tokens = [d \in Users |-> {}]
  /\ req = [p \in Procs |-> IdleReq]
  /\ stores = 0
  /\ writes = 0
  /\ lastStore = NoCall
  /\ ext = IdleExt
  /\ run = IdleRun
  /\ hook = NoCall
  /\ conv = [added |-> 0, memory |-> << >>, sql |-> {},
             byTimestamp |-> [rows |-> {}, nextId |-> 1]]

Init == InitStores /\ fn = NoCall

\* Date.now() advances between requests
Tick ==
  /\ ticks < MaxTicks
  /\ ticks' = ticks + 1
  /\ now' = now + TickMs
  /\ UNCHANGED <<pipeVars, billVars, tokenVars>>

\* storeBills(userId, bills) on the user's instance, prune included
StoreBills(userId, batch) ==
  LET d  == BillsDOFor(userId)
      st == UpsertAll([rows |-> bills[d], nextId |-> nextId[d]], userId, batch, 1, now)
  IN /\ calls < MaxCalls
     /\ \E del \in PruneDeletions(st.rows, userId) :
          /\ bills' = [bills EXCEPT ![d] = st.rows \ del]
          /\ last' = [op |-> "storeBills", userId |-> userId, batch |-> batch,
                      timestamp |-> now, removed |-> del]
     /\ nextId' = [nextId EXCEPT ![d] = st.nextId]
     /\ calls' = calls + 1
     /\ UNCHANGED <<pipeVars, now, ticks, tokenVars>>

SpecBills ==
  /\ Init
  /\ [][\/ Tick
        \/ \E userId \in Users, batch \in Batches :
             /\ \A i \in 1..Len(batch) : batch[i].gmail_message_id \in MsgIds
             /\ StoreBills(userId, batch)]_vars

\* storeBills(userId, bills) when the sql.exec of bills[k] throws (a value
\* the table refuses, a failure of the storage): the statements before it
\* have run, each on its own, the loop and prune are left, and the catch block
\* of fetch answers 500
StoreBillsFault(userId, batch, k) ==
  LET d  == BillsDOFor(userId)
      st == UpsertAll([rows |-> bills[d], nextId |-> nextId[d]], userId,
                      SubSeq(batch, 1, k - 1), 1, now)
  IN /\ calls < MaxCalls
     /\ k \in 1..Len(batch)
     /\ bills' = [bills EXCEPT ![d] = st.rows]
     /\ nextId' = [nextId EXCEPT ![d] = st.nextId]
     /\ last' = [op |-> "storeBillsFault", userId |-> userId, batch |-> batch,
                 timestamp |-> now, threw |-> k, status |-> 500,
                 before |-> bills[d]]
     /\ calls' = calls + 1
     /\ UNCHANGED <<pipeVars, now, ticks, tokenVars>>

\* requests that complete and requests with a statement that throws
SpecBillsFault ==
  /\ Init
  /\ [][\/ Tick
        \/ \E userId \in Users, batch \in Batches :
             /\ \A i \in 1..Len(batch) : batch[i].gmail_message_id \in MsgIds
             /\ StoreBills(userId, batch)
        \/ \E userId \in Users, batch \in Batches, k \in 1..4 :
             /\ \A i \in 1..Len(batch) : batch[i].gmail_message_id \in MsgIds
             /\ StoreBillsFault(userId, batch, k)]_vars

\* two requests of up to MAX_BILLS_PER_USER bills, the second within one
\* millisecond of the first or later: one bill, a full request, one bill the
\* instance has not seen, and a stored bill together with an unseen one
SpecBillsFull ==
  /\ Init
  /\ [][\/ Tick
        \/ \E userId \in Users, p \in Payloads :
             \E batch \in { Run(1, 1, p), Run(1, MAX_BILLS_PER_USER, p),
                             Run(MAX_BILLS_PER_USER + 1, 1, p),
                             <<Bill(1, p), Bill(MAX_BILLS_PER_USER + 1, p)>> } :
               /\ calls <= 1
               /\ StoreBills(userId, batch)]_vars

\* storeTokens(accessToken, refreshToken, expiresIn, userId) of instance d:
\* the user id is the one of the request body
StoreTokensOn(d, userId, accessToken, refreshToken, expiresIn) ==
  /\ stores < MaxStores
  /\ tokens' = [tokens EXCEPT ![d] =
                  InsertOrReplace(tokens[d], userId, accessToken, refreshToken,
                                  ExpiresAt(now, expiresIn))]
  /\ stores' = stores + 1
  /\ writes' = writes + 1
  /\ lastStore' = [op |-> "store", userId |-> userId, accessToken |-> accessToken,
                   refreshToken |-> refreshToken, expiresIn |-> expiresIn,
                   at |-> now, wrote |-> writes + 1]
  /\ UNCHANGED <<pipeVars, now, ticks, billVars, req>>

\* storeTokens as the OAuth callback calls it, on the user's instance
StoreTokens(userId, accessToken, refreshToken, expiresIn) ==
  StoreTokensOn(TokensDOFor(userId), userId, accessToken, refreshToken, expiresIn)

\* getTokens() on instance d, request p
GetTokens(p, d) ==
  /\ req[p].pc = "idle"
  /\ \/ /\ tokens[d] = {}
        \* cursor.one() throws, the catch block answers
        /\ req' = [req EXCEPT ![p] =
                     [IdleReq EXCEPT !.op = "get", !.pc = "done", !.inst = d,
                        !.readAt = now, !.seen = writes,
                        !.result = ErrorResponse(500, "Failed to retrieve tokens",
                                                 OneThrows)]]
     \/ \E row \in SelectLimit1(tokens[d]) :
          req' = [req EXCEPT ![p] =
                    [IdleReq EXCEPT !.op = "get", !.pc = "done", !.inst = d,
                       !.found = TRUE, !.row = row, !.readAt = now, !.seen = writes,
                       !.result = TokenResponse(row.access_token, row.refresh_token,
                                                row.expires_at, "")]]
  /\ UNCHANGED <<pipeVars, now, ticks, billVars, tokens, stores, writes, lastStore>>

\* refreshIfNeeded() on instance d, up to the await of the call of the token
\* endpoint (or to its response, when it returns before that)
RefreshStart(p, d) ==
  /\ req[p].pc = "idle"
  /\ \/ /\ tokens[d] = {}
        \* cursor.one() throws, the catch block answers
        /\ req' = [req EXCEPT ![p] =
                     [IdleReq EXCEPT !.op = "refresh", !.pc = "done", !.inst = d, !.readAt = now,
                        !.seen = writes,
                        !.result = ErrorResponse(500, "Token refresh failed", OneThrows)]]
     \/ \E row \in SelectLimit1(tokens[d]) :
          IF NeedsRefresh(row.expires_at, now)
          THEN req' = [req EXCEPT ![p] =
                         [IdleReq EXCEPT !.op = "refresh", !.pc = "awaiting", !.inst = d,
                            !.found = TRUE,
                            !.row = row, !.readAt = now, !.seen = writes, !.calls = 1]]
          ELSE req' = [req EXCEPT ![p] =
                         [IdleReq EXCEPT !.op = "refresh", !.pc = "done", !.inst = d,
                            !.found = TRUE,
                            !.row = row, !.readAt = now, !.seen = writes,
                            !.result = TokenResponse(row.access_token, row.refresh_token,
                                                     row.expires_at, FALSE)]]
  /\ UNCHANGED <<pipeVars, now, ticks, billVars, tokens, stores, writes, lastStore>>

\* the token endpoint answers 2xx with a JSON body
RefreshOk(p, accessToken, refreshToken, expiresIn) ==
  LET d == req[p].inst
      newRefreshToken == NewRefreshToken(refreshToken, req[p].row.refresh_token)
      newExpiresAt == ExpiresAt(now, expiresIn)
  IN /\ req[p].pc = "awaiting"
     /\ \E rows \in UpdateTokens(tokens[d], accessToken, newRefreshToken, newExpiresAt) :
          tokens' = [tokens EXCEPT ![d] = rows]
     /\ writes' = writes + 1
     /\ req' = [req EXCEPT ![p].pc = "done",
                           ![p].reply = [ok |-> TRUE, access_token |-> accessToken,
                                         refresh_token |-> refreshToken,
                                         expires_in |-> expiresIn, at |-> now],
                           ![p].wrote = writes + 1,
                           ![p].result = TokenResponse(accessToken, newRefreshToken,
                                                       newExpiresAt, TRUE)]
     /\ UNCHANGED <<pipeVars, now, ticks, billVars, stores, lastStore>>

\* the token endpoint answers with a non-2xx status; its body is JSON
\* (errorData) or is not, and then tokenResponse.json() throws into the catch
\* block
RefreshRejected(p, status, body) ==
  /\ req[p].pc = "awaiting"
  /\ req' = [req EXCEPT ![p].pc = "done",
                        ![p].reply = [ok |-> FALSE, status |-> status, body |-> body],
                        ![p].result =
                           IF body = NotJson
                           THEN ErrorResponse(500, "Token refresh failed", "json() threw")
                           ELSE ErrorResponse(status, "Token refresh failed", body)]
  /\ UNCHANGED <<pipeVars, now, ticks, billVars, tokens, stores, writes, lastStore>>

\* fetch() itself throws (no answer from the token endpoint)
RefreshFetchThrows(p) ==
  /\ req[p].pc = "awaiting"
  /\ req' = [req EXCEPT ![p].pc = "done",
                        ![p].reply = [ok |-> FALSE, status |-> 0, body |-> "fetch threw"],
                        ![p].result = ErrorResponse(500, "Token refresh failed", "fetch threw")]
  /\ UNCHANGED <<pipeVars, now, ticks, billVars, tokens, stores, writes, lastStore>>

NextTokens ==
  \/ Tick
  \/ \E userId \in Users, a \in StoreAccess, r \in StoreRefresh, e \in StoreExpiresIn :
       StoreTokens(userId, a, r, e)
  \/ \E p \in Procs, d \in Users : GetTokens(p, d)
  \/ \E p \in Procs, d \in Users : RefreshStart(p, d)
  \/ \E p \in Procs, t \in OkReplies :
       RefreshOk(p, t.access_token, t.refresh_token, t.expires_in)
  \/ \E p \in Procs, rej \in Rejections : RefreshRejected(p, rej[1], rej[2])
  \/ \E p \in Procs : RefreshFetchThrows(p)

SpecTokens == Init /\ [][NextTokens]_vars

\* the requests one instance serves when store requests name more than one
\* user id: the instance of u1, asked on behalf of u1
SpecTokensShared ==
  /\ Init
  /\ [][\/ Tick
        \/ \E userId \in Users, a \in StoreAccess, r \in StoreRefresh, e \in StoreExpiresIn :
             StoreTokensOn("u1", userId, a, r, e)
        \/ \E p \in Procs : GetTokens(p, "u1")
        \/ \E p \in Procs : RefreshStart(p, "u1")
        \/ \E p \in Procs, t \in OkReplies :
             RefreshOk(p, t.access_token, t.refresh_token, t.expires_in)]_vars

\* the inputs of parseBillsInParallel: attachments (pdf and message id), the
\* subject hints or undefined, and the config
MaxItems == 2

AttachmentLists ==
  UNION { { [i \in 1..n |-> [attachment |-> "pdf", messageId |-> f[i]]] :
              f \in { g \in [1..n -> MessageIds] : \A i, j \in 1..n : i # j => g[i] # g[j] } } :
          n \in 0..MaxItems }

SubjectHintLists == { NoHints, Hints(<<"electricity">>) }

Configs == { [defined |-> TRUE, apiKey |-> "key"] }

\* parseBillsInParallel(attachments, subjectHints, config) up to the await of
\* Promise.allSettled: every parseBillWithGemini call is started
ParseBillsInParallel(attachments, subjectHints, config) ==
  /\ ext.pc = "idle"
  /\ ext' = [pc |-> "running", attachments |-> attachments,
             calls |-> [i \in 1..Len(attachments) |->
                          ParseStart(HintAt(subjectHints, i), config)],
             result |-> << >>]
  /\ UNCHANGED <<now, ticks, billVars, tokenVars, run, fn, hook, conv>>

\* the model answers the invocation of call i
ParseAttemptStep(i, outcome) ==
  /\ ext.pc = "running"
  /\ i \in 1..Len(ext.calls)
  /\ ext.calls[i].pc = "attempt"
  /\ ext' = [ext EXCEPT !.calls[i] = ParseAttempt(ext.calls[i], outcome)]
  /\ UNCHANGED <<now, ticks, billVars, tokenVars, run, fn, hook, conv>>

\* every call has settled: Promise.allSettled resolves and parseBillsInParallel
\* returns the successful bills
ParseBillsSettled ==
  /\ ext.pc = "running"
  /\ \A i \in 1..Len(ext.calls) : ext.calls[i].pc # "attempt"
  /\ ext' = [ext EXCEPT !.pc = "done",
                        !.result = SuccessfulBills(ext.attachments, ext.calls, 1)]
  /\ UNCHANGED <<now, ticks, billVars, tokenVars, run, fn, hook, conv>>

SpecExtract ==
  /\ Init
  /\ [][\/ \E a \in AttachmentLists, h \in SubjectHintLists, c \in Configs :
             ParseBillsInParallel(a, h, c)
        \/ \E i \in 1..MaxItems, outcome \in ModelOutcomes : ParseAttemptStep(i, outcome)
        \/ ParseBillsSettled]_vars

\* executeBillScanWorkflow(input, env) is called
RunStart(userId, env) ==
  /\ run.pc = "idle"
  /\ run' = [IdleRun EXCEPT !.pc = "authorize", !.userId = userId, !.env = env,
                            !.billsBefore = bills]
  /\ UNCHANGED <<now, ticks, billVars, tokenVars, ext, fn, hook, conv>>

\* Step 1: refreshTokenIfNeeded(userId, env)
RunAuthorize(response) ==
  /\ run.pc = "authorize"
  /\ response \in TokenStoreAnswers(run.env)
  /\ IF response.ok
     THEN run' = [run EXCEPT !.pc = "search", !.token = response.accessToken,
                             !.trace = Append(run.trace, "authorize")]
     ELSE run' = [run EXCEPT !.pc = "done",
                             !.trace = Append(run.trace, "authorize"),
                             !.result = WorkflowCatch(FailedToGetAccessToken)]
  /\ UNCHANGED <<now, ticks, billVars, tokenVars, ext, fn, hook, conv>>

\* Step 2: searchGmailForBills(token, daysBack), and the return for no message
RunSearch(outcome) ==
  LET found == SearchEmails(outcome)
  IN /\ run.pc = "search"
     /\ IF ~found.ok
        THEN run' = [run EXCEPT !.pc = "done", !.trace = Append(run.trace, "search"),
                                !.search = outcome.kind,
                                !.result = WorkflowCatch(found.error)]
        ELSE IF NoneLeft(found.messages)
             THEN run' = [run EXCEPT !.pc = "done",
                                     !.trace = Append(run.trace, "search"),
                                     !.search = outcome.kind,
                                     !.messages = found.messages,
                                     !.result = Success(<< >>)]
             ELSE run' = [run EXCEPT !.pc = "filter",
                                     !.trace = Append(run.trace, "search"),
                                     !.search = outcome.kind,
                                     !.messages = found.messages]
     /\ UNCHANGED <<now, ticks, billVars, tokenVars, ext, fn, hook, conv>>

\* Step 3: filterMessagesBySubject(token, messages), and the return for no
\* message left
RunFilter(outs) ==
  LET filtered == FilterMessagesBySubject(run.messages, outs, 1)
  IN /\ run.pc = "filter"
     /\ IF NoneLeft(filtered)
        THEN run' = [run EXCEPT !.pc = "done", !.trace = Append(run.trace, "filter"),
                                !.filterOuts = outs, !.filtered = filtered,
                                !.result = Success(<< >>)]
        ELSE run' = [run EXCEPT !.pc = "fetch", !.trace = Append(run.trace, "filter"),
                                !.filterOuts = outs, !.filtered = filtered]
     /\ UNCHANGED <<now, ticks, billVars, tokenVars, ext, fn, hook, conv>>

\* Step 4: downloadPDFAttachments(token, filteredMessages.slice(0, 10)), and
\* the return for no PDF
RunFetch(outs, pdfs) ==
  LET messages == Slice(run.filtered, FETCH_LIMIT)
  IN /\ run.pc = "fetch"
     /\ DOMAIN outs = 1..Len(messages)
     /\ IsPdfList(pdfs, messages, outs)
     /\ IF NoneLeft(pdfs)
        THEN run' = [run EXCEPT !.pc = "done", !.trace = Append(run.trace, "fetch"),
                                !.fetchOuts = outs, !.pdfs = pdfs,
                                !.result = Success(<< >>)]
        ELSE run' = [run EXCEPT !.pc = "extract", !.trace = Append(run.trace, "fetch"),
                                !.fetchOuts = outs, !.pdfs = pdfs]
     /\ UNCHANGED <<now, ticks, billVars, tokenVars, ext, fn, hook, conv>>

\* Step 5: parseBillsInParallel(pdfs.map(...), subjectHints or undefined),
\* called with two arguments: config is undefined in every parseBillWithGemini
\* call, each call rejects before its loop, and Promise.allSettled resolves
\* without an invocation of the model
RunExtract ==
  LET subjectHints == NonNullHints(run.pdfs, 1)
      hints == IF Len(subjectHints) > 0 THEN Hints(subjectHints) ELSE NoHints
      cs == [i \in 1..Len(run.pdfs) |-> ParseStart(HintAt(hints, i), NoConfig)]
  IN /\ run.pc = "extract"
     /\ \A i \in 1..Len(cs) : cs[i].pc # "attempt"
     /\ run' = [run EXCEPT !.pc = "persist", !.trace = Append(run.trace, "extract"),
                           !.calls = cs,
                           !.parsed = SuccessfulBills(run.pdfs, cs, 1)]
     /\ UNCHANGED <<now, ticks, billVars, tokenVars, ext, fn, hook, conv>>

\* Step 6: storeBills(userId, parsedBills, env), the storeBills of the
\* user's BillsDO instance (prune included), and the return of the bills
RunPersist(outcome) ==
  LET d  == BillsDOFor(run.userId)
      batch == BillsToStore(run.parsed)
      st == UpsertAll([rows |-> bills[d], nextId |-> nextId[d]], run.userId, batch, 1, now)
  IN /\ run.pc = "persist"
     /\ CASE outcome = "ok" ->
               /\ \E del \in PruneDeletions(st.rows, run.userId) :
                    /\ bills' = [bills EXCEPT ![d] = st.rows \ del]
                    /\ last' = [op |-> "storeBills", userId |-> run.userId,
                                batch |-> batch, timestamp |-> now, removed |-> del]
               /\ nextId' = [nextId EXCEPT ![d] = st.nextId]
               /\ calls' = calls + 1
          [] outcome = "fault" ->
               \* the upserts before the statement that throws are executed
               /\ \E k \in 0..Len(batch) :
                    LET part == UpsertAll([rows |-> bills[d], nextId |-> nextId[d]],
                                          run.userId, SubSeq(batch, 1, k), 1, now)
                    IN /\ bills' = [bills EXCEPT ![d] = part.rows]
                       /\ nextId' = [nextId EXCEPT ![d] = part.nextId]
               /\ UNCHANGED <<calls, last>>
          [] OTHER -> UNCHANGED billVars
     /\ IF StoreBillsThrows(outcome)
        THEN run' = [run EXCEPT !.pc = "done", !.trace = Append(run.trace, "persist"),
                                !.persist = outcome,
                                !.result = WorkflowCatch(SearchTexts.networkConnectionLost)]
        ELSE run' = [run EXCEPT !.pc = "done", !.trace = Append(run.trace, "persist"),
                                !.persist = outcome,
                                !.result = Success([i \in 1..Len(run.parsed) |->
                                                      run.parsed[i].bill])]
     /\ UNCHANGED <<now, ticks, tokenVars, ext, fn, hook, conv>>

\* sendWorkflowResult posts to the follow-up URL on both branches
SendsFollowUpOnSuccess(result) == result.success

SendsFollowUp(result) == TRUE

\* sendWorkflowResult(result, interactionToken, applicationId): the content of
\* the follow-up message
RunNotify ==
  /\ run.pc = "done"
  /\ run' = [run EXCEPT !.pc = "notified",
                        !.sent = run.sent + IF SendsFollowUp(run.result) THEN 1 ELSE 0,
                        !.content =
                           IF ~run.result.success
                           THEN FormatErrorResponse(IF run.result.error = << >>
                                                    THEN UnknownError
                                                    ELSE run.result.error)
                           ELSE FormatBillSummary(run.result.bills)]
  /\ UNCHANGED <<now, ticks, billVars, tokenVars, ext, fn, hook, conv>>

\* the run up to the end of Step 1 and its message, beside the writes of the
\* token store
SpecAuthorize ==
  /\ Init
  /\ [][\/ Tick
        \/ \E userId \in Users, a \in StoreAccess, r \in StoreRefresh, e \in StoreExpiresIn :
             StoreTokens(userId, a, r, e)
        \/ \E userId \in Users, env \in EnvTokenStores : RunStart(userId, env)
        \/ \E response \in UNION { TokenStoreAnswers(env) : env \in EnvTokenStores } :
             RunAuthorize(response)
        \/ RunNotify]_vars

\* searches that find about as many messages as Step 4 takes, or more: the
\* messages 1..n
MaxLong == 11

LongSearchOutcomes ==
  { [kind |-> "messages", messages |-> [i \in 1..n |-> i], message |-> << >>] :
      n \in (FETCH_LIMIT - 1)..MaxLong }

\* for such a search, the details of at most one message cannot be read or
\* have a subject without keyword
LongDetailOutcomes(n) ==
  LET plain == [i \in 1..n |-> [kind |-> "details", subject |-> Join(<<Vocabulary.your, Vocabulary.electricity, Vocabulary.bill>>, 1)]]
  IN {plain} \cup { [plain EXCEPT ![i] = o] :
                      i \in 1..n,
                      o \in { [kind |-> "throws", subject |-> << >>],
                              [kind |-> "details", subject |-> Join(<<Vocabulary.welcome, Vocabulary.toOur, Vocabulary.newsletter>>, 1)] } }

\* and at most one message has no PDF or a failing fetch
LongFetchOutcomes(n) ==
  LET plain == [i \in 1..n |-> "pdf"]
  IN {plain} \cup { [plain EXCEPT ![i] = o] : i \in 1..n, o \in {"nopdf", "throws"} }

\* the callbacks reach the push in the order of the messages, or in the
\* opposite order
RECURSIVE PdfsInOrder(_, _, _)
PdfsInOrder(messages, outs, i) ==
  IF i > Len(messages) THEN << >>
  ELSE IF Downloaded(outs, i)
       THEN <<PdfAt(messages, i)>> \o PdfsInOrder(messages, outs, i + 1)
       ELSE PdfsInOrder(messages, outs, i + 1)

Reversed(list) == [i \in 1..Len(list) |-> list[Len(list) + 1 - i]]

\* the run, all steps, on long searches
SpecRunLong ==
  /\ Init
  /\ [][\/ \E userId \in Users, env \in EnvTokenStores : RunStart(userId, env)
        \/ \E response \in UNION { TokenStoreAnswers(env) : env \in EnvTokenStores } :
             RunAuthorize(response)
        \/ \E outcome \in LongSearchOutcomes : RunSearch(outcome)
        \/ \E outs \in LongDetailOutcomes(Len(run.messages)) : RunFilter(outs)
        \/ \E outs \in LongFetchOutcomes(Len(Slice(run.filtered, FETCH_LIMIT))) :
             \E pdfs \in { PdfsInOrder(Slice(run.filtered, FETCH_LIMIT), outs, 1),
                           Reversed(PdfsInOrder(Slice(run.filtered, FETCH_LIMIT), outs, 1)) } :
               RunFetch(outs, pdfs)
        \/ RunExtract
        \/ \E outcome \in StoreOutcomes : RunPersist(outcome)
        \/ RunNotify]_vars

\* the run, all steps
NextRun ==
  \/ \E userId \in Users, env \in EnvTokenStores : RunStart(userId, env)
  \/ \E response \in UNION { TokenStoreAnswers(env) : env \in EnvTokenStores } :
       RunAuthorize(response)
  \/ \E outcome \in SearchOutcomes : RunSearch(outcome)
  \/ \E outs \in [1..Len(run.messages) -> DetailOutcomes] : RunFilter(outs)
  \/ \E outs \in [1..Len(Slice(run.filtered, FETCH_LIMIT)) -> FetchOutcomes] :
       \E pdfs \in PdfLists(Slice(run.filtered, FETCH_LIMIT), outs) : RunFetch(outs, pdfs)
  \/ RunExtract
  \/ \E outcome \in StoreOutcomes : RunPersist(outcome)
  \/ RunNotify

SpecRun == Init /\ [][NextRun]_vars

\* the collaborator of the stage (token store, mail provider, storage,
\* Discord) never answers: the await of the stage's fetch does not settle, and
\* no timer or AbortSignal is set on any call
RunStall ==
  /\ run.pc \in {"authorize", "search", "filter", "fetch", "persist", "done"}
  /\ run' = [run EXCEPT !.pc = "awaiting", !.content = [op |-> "awaiting", stage |-> run.pc]]
  /\ UNCHANGED <<now, ticks, billVars, tokenVars, ext, fn, hook, conv>>

\* the run with collaborators that may never answer
SpecRunStall == Init /\ [][NextRun \/ RunStall]_vars

\* the caller of the workflow: it awaits executeBillScanWorkflow, whose awaited
\* calls all settle, and then calls sendWorkflowResult with the result
WorkflowCaller == WF_vars(NextRun)

SpecRunFair == SpecRun /\ WorkflowCaller

\* a subject is given
InitClassify == InitStores /\ fn \in { [op |-> "subject", subject |-> s] : s \in Subjects }

\* categorizeBySubject(subject) is called with it
Categorize ==
  /\ fn.op = "subject"
  /\ fn' = [op |-> "categorizeBySubject", subject |-> fn.subject,
            result |-> CategorizeBySubject(fn.subject)]
  /\ UNCHANGED <<now, ticks, billVars, tokenVars, ext, run, hook, conv>>

SpecClassify == InitClassify /\ [][Categorize]_vars

\* handleDiscordWebhook(request, env, ctx) answers a request
HandleRequest(request, throws) ==
  /\ hook' = [op |-> "webhook", request |-> request,
              response |-> HandleDiscordWebhook(request, throws),
              followUps |-> << >>]
  /\ UNCHANGED <<now, ticks, billVars, tokenVars, ext, run, fn, conv>>

\* the task of /chat given to ctx.waitUntil: caller.chat.send returns and its
\* response is posted to the follow-up URL, or it throws and the error line is
FollowUp(failed) ==
  /\ hook.op = "webhook"
  /\ hook.response.background = "chat"
  /\ hook.followUps = << >>
  /\ hook' = [hook EXCEPT
                 !.followUps =
                   <<IF failed THEN "Error: chat.send failed" ELSE "result.response">>,
                 !.response.calls =
                   IF failed
                   THEN <<"CONVERSATIONS add", "CONVERSATIONS getHistory", "AI">>
                   ELSE <<"CONVERSATIONS add", "CONVERSATIONS getHistory", "AI",
                          "CONVERSATIONS add">>]
  /\ UNCHANGED <<now, ticks, billVars, tokenVars, ext, run, fn, conv>>

SpecWebhook ==
  /\ Init
  /\ [][\/ \E request \in WebhookRequests, throws \in BOOLEAN : HandleRequest(request, throws)
        \/ \E failed \in BOOLEAN : FollowUp(failed)]_vars

(***************************************************************************)
(* handleOAuthCallback                                                     *)
(***************************************************************************)
\* handleOAuthCallback(request, env).  The request has the query parameters
\* error, code and state.  A state is missing, is no base64 of JSON, or is
\* JSON with a userId and a codeVerifier (either may be empty); it is read as
\* it comes: /bill connect keeps nothing of the state it makes and signs
\* nothing.  A code is missing, is one the provider never granted, or was
\* granted to a flow whose PKCE challenge was made of "challenge":
\* validateAuthorizationCode(code, codeVerifier) throws unless the code was
\* granted and the verifier is the one of its challenge.
HandleOAuthCallback(request) ==
  LET failed(status, page) == [status |-> status, page |-> page, stored |-> FALSE]
  IN IF request.error THEN failed(400, "Authorization Failed")
     ELSE IF request.code.kind = "missing" \/ request.state.kind = "missing"
     THEN failed(400, "Invalid OAuth Callback")
     ELSE IF request.state.kind # "json"
     THEN failed(500, "JSON.parse or atob threw")
     ELSE IF request.state.userId = "" \/ request.state.codeVerifier = ""
     THEN failed(500, "Invalid state parameter")
     ELSE IF \/ request.code.kind # "granted"
             \/ request.code.challenge # request.state.codeVerifier
     THEN failed(500, "validateAuthorizationCode threw")
     ELSE IF ~request.code.hasRefreshToken
     THEN failed(500, "No refresh token received")
     ELSE [status |-> 200, page |-> "Authorization Successful", stored |-> TRUE,
           userId |-> request.state.userId,
           expiresIn |-> IF request.code.expiresIn = 0 THEN 3600
                         ELSE request.code.expiresIn]

\* a request to /oauth/google/callback is answered: on success the tokens of
\* the grant are stored on the instance of the state's userId
OAuthCallback(request, accessToken, refreshToken) ==
  LET out == HandleOAuthCallback(request)
  IN /\ fn' = [op |-> "oauthCallback", request |-> request, status |-> out.status,
               page |-> out.page, at |-> now]
     /\ IF out.stored
        THEN /\ stores < MaxStores
             /\ tokens' = [tokens EXCEPT ![TokensDOFor(out.userId)] =
                             InsertOrReplace(@, out.userId, accessToken, refreshToken,
                                             ExpiresAt(now, out.expiresIn))]
             /\ stores' = stores + 1
             /\ writes' = writes + 1
             /\ lastStore' = [op |-> "store", userId |-> out.userId,
                              accessToken |-> accessToken,
                              refreshToken |-> refreshToken,
                              expiresIn |-> out.expiresIn, at |-> now,
                              wrote |-> writes + 1]
        ELSE UNCHANGED <<tokens, stores, writes, lastStore>>
     /\ UNCHANGED <<now, ticks, billVars, req, ext, run, hook, conv>>

\* the worker's fetch: at most one /bill command on the webhook and, before
\* it or after it, one request to the callback, from anyone
SpecCallback ==
  /\ Init
  /\ [][\/ \E request \in WebhookRequests, throws \in BOOLEAN :
             /\ hook.op = "none"
             /\ request.signature = "valid"
             /\ request.type = "APPLICATION_COMMAND"
             /\ request.commandName = "bill"
             /\ ~request.message
             /\ HandleRequest(request, throws)
        \/ \E error \in BOOLEAN, a \in StoreAccess, r \in StoreRefresh,
               code \in {[kind |-> "missing"], [kind |-> "invalid"]}
                         \cup [kind : {"granted"}, challenge : {"v1", "v2"},
                               hasRefreshToken : BOOLEAN, expiresIn : {0, 600}],
               state \in {[kind |-> "missing"], [kind |-> "garbage"]}
                          \cup [kind : {"json"}, userId : {"u1", "u2", ""},
                                codeVerifier : {"v1", "v2", ""}] :
             /\ fn.op = "none"
             /\ OAuthCallback([error |-> error, code |-> code, state |-> state], a, r)]_vars

\* the bills formatBillSummary is applied to
MaxBills == 4

SummaryBills ==
  { [type |-> "electricity", amount |-> 12845, issue_date |-> 15, confidence |-> 95,
     gmail_message_id |-> 1],
    [type |-> "electricity", amount |-> 10000, issue_date |-> 5, confidence |-> 90,
     gmail_message_id |-> 2],
    [type |-> "electricity", amount |-> 9000, issue_date |-> 15, confidence |-> 90,
     gmail_message_id |-> 3],
    [type |-> "hot_water", amount |-> 3250, issue_date |-> 10, confidence |-> 95,
     gmail_message_id |-> 4],
    [type |-> "water", amount |-> 4520, issue_date |-> 8, confidence |-> 95,
     gmail_message_id |-> 5],
    [type |-> "internet", amount |-> 7999, issue_date |-> 12, confidence |-> 95,
     gmail_message_id |-> 6],
    [type |-> "water", amount |-> 5050, issue_date |-> 33, confidence |-> 90,
     gmail_message_id |-> 7] }

SummaryLists == UNION { [1..n -> SummaryBills] : n \in 0..MaxBills }

\* a bill list is given
InitSummary == InitStores /\ fn \in { [op |-> "bills", bills |-> l] : l \in SummaryLists }

\* formatBillSummary(bills) is called with it
FormatSummary ==
  /\ fn.op = "bills"
  /\ fn' = [op |-> "formatBillSummary", bills |-> fn.bills,
            result |-> FormatBillSummary(fn.bills)]
  /\ UNCHANGED <<now, ticks, billVars, tokenVars, ext, run, hook, conv>>

SpecSummary == InitSummary /\ [][FormatSummary]_vars

\* the messages formatErrorResponse is applied to: up to MaxWords of the texts
\* of the run's errors and of "OAuth", "Rate Limit", "exceeded", "timeout",
\* separated by single spaces
ErrorTexts ==
  LET words == { ErrorKeywords[k] : k \in DOMAIN ErrorKeywords }
                 \cup { SearchTexts.statusUnauthorized, SearchTexts.networkConnectionLost,
                        FailedToGetAccessToken,
                        <<"O", "A", "u", "t", "h">>,
                        <<"R", "a", "t", "e", " ", "L", "i", "m", "i", "t">>,
                        <<"e", "x", "c", "e", "e", "d", "e", "d">>,
                        <<"t", "i", "m", "e", "o", "u", "t">> }
  IN { Join(ws, 1) : ws \in UNION { [1..n -> words] : n \in 0..MaxWords } }

\* an error is given
InitError == InitStores /\ fn \in { [op |-> "error", message |-> m] : m \in ErrorTexts }

\* formatErrorResponse(error) is called with it
FormatError ==
  /\ fn.op = "error"
  /\ fn' = [op |-> "formatErrorResponse", message |-> fn.message,
            result |-> FormatErrorResponse(fn.message)]
  /\ UNCHANGED <<now, ticks, billVars, tokenVars, ext, run, hook, conv>>

SpecError == InitError /\ [][FormatError]_vars

\* GET /recent?userId=...&daysBack=... on the user's instance
Recent(userId, daysBack, tie) ==
  /\ fn' = [op |-> "getRecent", userId |-> userId, daysBack |-> daysBack, at |-> now,
            calls |-> calls,
            result |-> GetRecent(bills[BillsDOFor(userId)], userId, daysBack, now, tie)]
  /\ UNCHANGED <<now, ticks, billVars, tokenVars, ext, run, hook, conv>>

\* the instance lies idle for the rest of a day less twelve minutes
Idle ==
  /\ now = SeedRequests * TickMs
  /\ now' = now + 86400000 - 12 * TickMs
  /\ UNCHANGED <<ticks, billVars, tokenVars, pipeVars>>

\* the instance at once or after lying idle: a tick or a first storeBills
\* request, then one query
SpecRecent ==
  /\ Init
  /\ [][\/ fn.op = "none" /\ calls = 0 /\ Idle
        \/ fn.op = "none" /\ Tick
        \/ \E userId \in Users, batch \in Batches :
             /\ fn.op = "none" /\ calls = 0
             /\ \A i \in 1..Len(batch) : batch[i].gmail_message_id \in MsgIds
             /\ StoreBills(userId, batch)
        \/ \E userId \in Users, daysBack \in {0, 1, 7}, tie \in {"asc", "desc"} :
             fn.op = "none" /\ Recent(userId, daysBack, tie)]_vars

\* number of add requests in a behaviour
MaxAdds == 52

\* {action: 'add', role, content, userId}: the same request to each version;
\* the content is the number of the request
Add(tie) ==
  LET message == [role |-> IF conv.added % 2 = 0 THEN "user" ELSE "assistant",
                  content |-> conv.added + 1, timestamp |-> now]
  IN /\ conv.added < MaxAdds
     /\ conv' = [added |-> conv.added + 1,
                 memory |-> AddMessageInMemory(conv.memory, message),
                 sql |-> AddMessage(conv.sql, message),
                 byTimestamp |-> AddMessageByTimestamp(conv.byTimestamp, message, tie)]
     /\ UNCHANGED <<now, ticks, billVars, tokenVars, ext, run, fn, hook>>

\* {action: 'getHistory'} to a version
History(version, tie) ==
  /\ fn' = [op |-> "getHistory", version |-> version, added |-> conv.added,
            result |-> GetHistory(version, tie)]
  /\ UNCHANGED <<now, ticks, billVars, tokenVars, ext, run, hook, conv>>

\* time passes between the first requests; then the requests, then one
\* getHistory
SpecConversation ==
  /\ Init
  /\ [][\/ fn.op = "none" /\ conv.added <= MaxTicks /\ Tick
        \/ \E tie \in {"asc", "desc"} : fn.op = "none" /\ Add(tie)
        \/ \E version \in {"memory", "sql", "byTimestamp"}, tie \in {"asc", "desc"} :
             fn.op = "none" /\ History(version, tie)]_vars

(***************************************************************************)
(* The bill store: claims                                                  *)
(***************************************************************************)
\* the records of user v, in whichever instance they are
RecordsOf(v) == UNION { UserRows(bills[d], v) : d \in Users }

\* the message ids of a request
BatchIds(batch) == { batch[i].gmail_message_id : i \in 1..Len(batch) }

\* the last bill of a request that names message id m
LastFor(batch, m) ==
  batch[CHOOSE i \in 1..Len(batch) :
          /\ batch[i].gmail_message_id = m
          /\ \A j \in (i + 1)..Len(batch) : batch[j].gmail_message_id # m]

Stored == last.op = "storeBills"

C2_EvictsOldest ==
  (Stored /\ last.removed # {}) =>
     /\ Cardinality(RecordsOf(last.userId)) = MAX_BILLS_PER_USER
     /\ \A r \in RecordsOf(last.userId), x \in last.removed :
          r.timestamp >= x.timestamp

\* a prune that cut between two records of one timestamp and left newer ones
C2_Witness ==
  /\ Stored
  /\ \E r \in RecordsOf(last.userId), x \in last.removed :
       r.timestamp = x.timestamp
  /\ \E r \in RecordsOf(last.userId), x \in last.removed :
       r.timestamp > x.timestamp

\* C3: no two records of a user carry the same gmail_message_id, and a
\* request that repeats an id completes with that id stored once.
C3_UniqueMessageId ==
  /\ \A v \in Users : \A r1, r2 \in RecordsOf(v) :
        r1.gmail_message_id = r2.gmail_message_id => r1 = r2
  /\ \A d \in Users : \A r1, r2 \in bills[d] : r1.id = r2.id => r1 = r2

\* a request naming one id twice, the id being stored before the request
C3_Witness ==
  /\ Stored
  /\ Len(last.batch) = 2
  /\ last.batch[1].gmail_message_id = last.batch[2].gmail_message_id
  /\ \E r \in RecordsOf(last.userId) :
       /\ r.gmail_message_id = last.batch[1].gmail_message_id
       /\ r.id < nextId[BillsDOFor(last.userId)] - 1

C4_Witness ==
  /\ Stored
  /\ last.userId = "u1"
  /\ Len(last.batch) = 2
  /\ last.batch[1].gmail_message_id = 1
  /\ last.batch[2].gmail_message_id = 1
  /\ last.batch[1].type = "water"
  /\ last.batch[2].type = "electricity"
  /\ \E r \in RecordsOf("u1") :
       r.gmail_message_id = 1 /\ r.id = 1 /\ r.amount = last.batch[2].amount

\* C5: a storeBills call (prune included) for one user leaves the records
\* of every other user as they were.
C5_OtherUsersUntouched ==
  [][\A v \in Users :
       (calls' # calls /\ last'.userId # v) => RecordsOf(v)' = RecordsOf(v)]_vars

\* both users hold a record for one message id, u2's written last
C5_Witness ==
  /\ Stored
  /\ last.userId = "u2"
  /\ \E r1 \in RecordsOf("u1"), r2 \in RecordsOf("u2") :
       /\ r1.gmail_message_id = r2.gmail_message_id
       /\ r1.gmail_message_id \in BatchIds(last.batch)
       /\ r1.type # r2.type

(***************************************************************************)
(* The token store: claims                                                 *)
(***************************************************************************)
\* request p has answered
Done(p) == req[p].pc = "done"

\* request p called the token endpoint and got a 2xx answer
Refreshed(p) == Done(p) /\ req[p].calls = 1 /\ req[p].reply.ok

\* request p called the token endpoint and got a non-2xx answer
Rejected(p) == Done(p) /\ req[p].calls = 1 /\ ~req[p].reply.ok /\ req[p].reply.status # 0

\* C6: a refreshIfNeeded that finds a record calls the token endpoint exactly
\* when expires_at - now is below 5 minutes; otherwise it answers with the
\* stored record, refreshed false, and leaves the table as it is.
C6_RefreshThreshold ==
  [][\A p \in Procs :
       (req[p].pc = "idle" /\ req'[p].op = "refresh" /\ req'[p].found) =>
         LET row == req'[p].row
             remaining == row.expires_at - now
         IN /\ row \in tokens[req'[p].inst]
            /\ (req'[p].calls = 1) <=> (remaining < 300000)
            /\ (req'[p].pc = "awaiting") <=> (remaining < 300000)
            /\ remaining >= 300000 =>
                 /\ req'[p].calls = 0
                 /\ tokens' = tokens
                 /\ req'[p].result =
                      TokenResponse(row.access_token, row.refresh_token,
                                    row.expires_at, FALSE)]_vars

\* one request answered from the table at exactly 5 minutes, another waits
\* for the token endpoint at 4 minutes
C6_Witness ==
  \E p, q \in Procs :
    /\ Done(p) /\ req[p].op = "refresh" /\ req[p].found /\ req[p].calls = 0
    /\ req[p].row.expires_at - req[p].readAt = 300000
    /\ req[p].result.refreshed = FALSE
    /\ req[q].pc = "awaiting"
    /\ req[q].row.expires_at - req[q].readAt = 240000

\* C7: the step in which a refresh succeeds leaves the instance with one
\* record, holding the access token of the answer, the expiry now + expires_in
\* seconds, and the refresh token of the answer if it has one, else the
\* refresh token the request read before it called the endpoint.
C7_RefreshPersists ==
  [][\A p \in Procs :
       (req[p].pc = "awaiting" /\ req'[p].pc = "done" /\ req'[p].reply.ok) =>
         LET t == req'[p].reply
             d == req[p].inst
         IN /\ Cardinality(tokens'[d]) = 1
            /\ \A r \in tokens'[d] :
                 /\ r.user_id = d
                 /\ r.access_token = t.access_token
                 /\ r.expires_at = now + t.expires_in * 1000
                 /\ r.refresh_token =
                      IF t.refresh_token # Absent THEN t.refresh_token
                      ELSE req[p].row.refresh_token
            /\ req'[p].result.refreshed = TRUE
            /\ req'[p].result.status = 200]_vars

\* a refresh answered, a tick after the request read the record, without a
\* new refresh token: the record keeps the stored refresh token
C7_Witness ==
  \E p \in Procs :
    /\ Refreshed(p)
    /\ req[p].wrote = writes
    /\ req[p].reply.refresh_token = Absent
    /\ req[p].reply.at > req[p].readAt
    /\ \E r \in tokens[req[p].inst] :
         /\ r.refresh_token = "r0"
         /\ r.access_token = req[p].reply.access_token
         /\ r.expires_at = req[p].reply.at + 3600000

\* C8: a refresh the token endpoint rejects with a non-2xx status is answered
\* with that status and the endpoint's body, after one call of the endpoint
\* and without a write of the table.
C8_RejectionCarried ==
  \A p \in Procs :
    Rejected(p) =>
      /\ req[p].result.status = req[p].reply.status
      /\ req[p].result.details = req[p].reply.body
      /\ req[p].calls = 1
      /\ req[p].wrote = 0

\* C9: refreshIfNeeded on an instance without a record answers not found
\* (404), not with the error of a failed refresh, calls no endpoint and writes
\* nothing; getTokens on such an instance answers not found (404).
C9_NoTokenIsNotFound ==
  /\ \A p \in Procs :
       (Done(p) /\ ~req[p].found) =>
         /\ req[p].result.status = 404
         /\ (req[p].op = "refresh" => req[p].result.error # "Token refresh failed")
         /\ req[p].calls = 0
         /\ req[p].wrote = 0

\* p and q both read the record of one instance before either wrote it, and
\* both refreshed
Interleaved(p, q) ==
  /\ p # q
  /\ Refreshed(p) /\ Refreshed(q)
  /\ req[p].inst = req[q].inst
  /\ req[p].seen < req[q].wrote
  /\ req[q].seen < req[p].wrote

\* C10: after two interleaved refreshes of one user, and before any later
\* write, the record is whole: access token, refresh token and expiry are
\* those the request that wrote last stored, as if it had run alone on the
\* record it read.
C10_LastWriterWins ==
  \A p, q \in Procs :
    (Interleaved(p, q) /\ req[p].wrote = writes) =>
      tokens[req[p].inst] =
        { [user_id |-> req[p].inst,
           access_token |-> req[p].reply.access_token,
           refresh_token |-> IF req[p].reply.refresh_token # Absent
                             THEN req[p].reply.refresh_token
                             ELSE req[p].row.refresh_token,
           expires_at |-> req[p].reply.at + req[p].reply.expires_in * 1000] }

\* the first writer stored a new refresh token, the answer to the last
\* writer had none: the record is the last writer's, with the refresh token
\* both requests had read
C10_Witness ==
  \E p, q \in Procs :
    /\ Interleaved(p, q)
    /\ req[p].wrote = writes
    /\ req[q].reply.refresh_token = "r1"
    /\ req[p].reply.refresh_token = Absent
    /\ \E r \in tokens[req[p].inst] : r.refresh_token = "r0" /\ r.access_token = "a1"

\* C11: while the last storeTokens call of a user is the last write of the
\* token tables, the user's instance holds one record, (access token, refresh
\* token, time of the call + expires_in seconds), and a getTokens that read
\* the instance then answered 200 with exactly these three values.
C11_StoreGetRoundTrip ==
  lastStore # NoCall =>
    LET d == TokensDOFor(lastStore.userId)
        expiresAt == lastStore.at + lastStore.expiresIn * 1000
    IN /\ lastStore.wrote = writes =>
            tokens[d] = { [user_id |-> lastStore.userId,
                           access_token |-> lastStore.accessToken,
                           refresh_token |-> lastStore.refreshToken,
                           expires_at |-> expiresAt] }
       /\ \A p \in Procs :
            (Done(p) /\ req[p].op = "get" /\ req[p].inst = d
               /\ req[p].seen = lastStore.wrote) =>
              /\ req[p].result.status = 200
              /\ req[p].result.accessToken = lastStore.accessToken
              /\ req[p].result.refreshToken = lastStore.refreshToken
              /\ req[p].result.expiresAt = expiresAt

\* a second store for a user, a tick after a refresh had replaced the tokens
\* of the first and with another expires_in, and a get after it
C11_Witness ==
  /\ lastStore # NoCall
  /\ stores = 2
  /\ lastStore.wrote = 3
  /\ lastStore.expiresIn = 600
  /\ \E p, q \in Procs :
       /\ Refreshed(q) /\ req[q].inst = TokensDOFor(lastStore.userId)
       /\ req[q].wrote = 2 /\ req[q].reply.at < lastStore.at
       /\ Done(p) /\ req[p].op = "get" /\ req[p].seen = 3
       /\ req[p].inst = TokensDOFor(lastStore.userId)
       /\ req[p].result.accessToken = "a0"
       /\ req[p].result.expiresAt = lastStore.at + 600000

(***************************************************************************)
(* The extractor: claims                                                   *)
(***************************************************************************)
\* the parseBillWithGemini calls of the parseBillsInParallel call
ExtCalls == { ext.calls[i] : i \in 1..Len(ext.calls) }

\* pass k of call c got a schema-valid object from the model
ValidAt(c, k) == c.log[k].outcome.kind = "object" /\ SchemaValid(c.log[k].outcome.object)

\* C12: a schema-valid answer of the model is accepted exactly when its
\* confidence is at least 0.7; an accepted answer is what the call returns,
\* with no invocation after it (0.70 on the first pass: one invocation); an
\* answer below 0.7 is a failed pass, never the value returned, and on the
\* first pass it is followed by the retry.
C12_ConfidenceGate ==
  \A c \in ExtCalls :
    /\ \A k \in 1..Len(c.log) :
         ValidAt(c, k) =>
           LET o == c.log[k].outcome.object
           IN /\ ~c.log[k].failed <=> o.confidence >= 70
              /\ ~c.log[k].failed =>
                   /\ c.pc = "fulfilled" /\ c.value = o
                   /\ Len(c.log) = k /\ c.invocations = k
              /\ (c.log[k].failed /\ k = 1) =>
                   \/ c.pc = "attempt" /\ c.attempt = 1
                   \/ Len(c.log) = 2
    /\ c.pc = "fulfilled" => c.value.confidence >= 70

\* one call returned an answer of confidence 0.70 after one invocation,
\* another is retrying after an answer of confidence 0.69
C12_Witness ==
  \E c, d \in ExtCalls :
    /\ c.pc = "fulfilled" /\ c.value.confidence = 70 /\ c.invocations = 1
    /\ d.pc = "attempt" /\ d.attempt = 1 /\ Len(d.log) = 1
    /\ ValidAt(d, 1) /\ d.log[1].outcome.object.confidence = 69

C14_WrapsLastFailure ==
  \A c \in ExtCalls :
    (Len(c.log) >= 2 /\ c.log[1].failed /\ c.log[2].failed) =>
      /\ c.pc = "rejected"
      /\ c.reason.name = "BillParserError"
      /\ c.reason.message = "Failed to parse bill after 2 attempts"
      /\ c.reason.cause = c.log[2].error
      /\ c.log[2].error # NoCause
      /\ c.invocations = 2 /\ Len(c.log) = 2

\* the first invocation threw, the second answer had confidence 0.69: the
\* cause is the low-confidence error; and a call whose second answer did not
\* match the schema
C14_Witness ==
  \E c, d \in ExtCalls :
    /\ c.pc = "rejected" /\ c.log[1].outcome.kind = "throws"
    /\ ValidAt(c, 2) /\ c.log[2].outcome.object.confidence = 69
    /\ c.reason.cause.message = "Low confidence score"
    /\ d.pc = "rejected" /\ d.log[2].outcome.kind = "object" /\ ~ValidAt(d, 2)
    /\ d.reason.cause.name = "NoObjectGeneratedError"

\* C15: parseBillsInParallel returns, whatever the outcomes of its calls: one
\* entry for each call that returned a bill, none for a call that rejected,
\* each entry the bill of a call with the message id of that call's
\* attachment.
C15_CollectsSuccesses ==
  ext.pc = "done" =>
    LET ok == { i \in 1..Len(ext.calls) : ext.calls[i].pc = "fulfilled" }
    IN /\ Len(ext.result) = Cardinality(ok)
       /\ \A i \in ok :
            Cardinality({ j \in 1..Len(ext.result) :
                            ext.result[j].messageId = ext.attachments[i].messageId }) = 1
       /\ \A j \in 1..Len(ext.result) :
            \E i \in ok :
              /\ ext.result[j].messageId = ext.attachments[i].messageId
              /\ ext.result[j].bill = ext.calls[i].value

\* two attachments, the first call rejected, the second returned a bill
C15_Witness ==
  /\ ext.pc = "done"
  /\ Len(ext.calls) = 2
  /\ ext.calls[1].pc = "rejected"
  /\ ext.calls[2].pc = "fulfilled"
  /\ ext.result = <<[bill |-> ext.calls[2].value,
                     messageId |-> ext.attachments[2].messageId]>>

(***************************************************************************)
(* The run: claims                                                         *)
(***************************************************************************)
\* the steps the run has executed
Executed(step) == \E i \in 1..Len(run.trace) : run.trace[i] = step

\* the run has returned its result
Returned == run.pc \in {"done", "notified"}

\* C17: a run whose token store is the user's OAuthTokensDO instance, holding
\* a record that is 5 minutes or more from expiry (refreshIfNeeded would
\* answer with it), leaves Step 1 with the access token of the record and
\* goes on to the search.
C17_AuthorizeObtainsToken ==
  [][(run.pc = "authorize" /\ run'.pc # "authorize" /\ run.env = "OAuthTokensDO") =>
       \A row \in tokens[TokensDOFor(run.userId)] :
         row.expires_at - now >= 300000 =>
           /\ run'.pc = "search"
           /\ run'.token = row.access_token]_vars

\* C18: a run whose Step 1 fails returns a failure, has executed no step
\* after Step 1, has written no bill, and its message is the reauthorization
\* guidance.
C18_AuthorizeFailureEndsRun ==
  (Executed("authorize") /\ run.token = Undefined) =>
    /\ Returned
    /\ run.result.success = FALSE
    /\ run.result.bills = << >>
    /\ run.trace = <<"authorize">>
    /\ bills = run.billsBefore
    /\ run.pc = "notified" => run.content = ReauthorizeText

\* a run on the OAuthTokensDO instance of a user without a record has failed
\* and its message is the reauthorization guidance
C18_Witness ==
  /\ run.pc = "notified"
  /\ run.env = "OAuthTokensDO"
  /\ tokens[TokensDOFor(run.userId)] = {}
  /\ run.trace = <<"authorize">>
  /\ ~run.result.success
  /\ run.result.error = FailedToGetAccessToken
  /\ run.content = ReauthorizeText

\* the search failed: the Gmail API answered with a status that is not 2xx,
\* or fetch or response.json() threw
SearchFailed == Executed("search") /\ run.search \in {"status", "throws"}

\* C19, as claimed: a run whose search fails returns a failure without
\* executing a later step, and its message is the generic error text.
C19_SearchFailureGeneric ==
  SearchFailed =>
    /\ Returned
    /\ run.result.success = FALSE
    /\ run.trace = <<"authorize", "search">>
    /\ run.pc = "notified" => run.content = GenericErrorText(run.result.error)

\* C19, amended: a run whose search fails returns a failure without
\* executing a later step and without writing a bill; its message is the
\* generic error text with the message of the error, unless that message,
\* lower-cased, contains "oauth", "token" or "unauthorized" (then the
\* reauthorization guidance) or else "rate limit" (then the backoff guidance).
C19_SearchFailureFormatted ==
  SearchFailed =>
    /\ Returned
    /\ run.result.success = FALSE
    /\ run.result.bills = << >>
    /\ run.result.error # << >>
    /\ run.trace = <<"authorize", "search">>
    /\ bills = run.billsBefore
    /\ run.pc = "notified" =>
         LET m == ToLowerCase(run.result.error)
         IN run.content =
              IF Includes(m, ErrorKeywords.oauth) \/ Includes(m, ErrorKeywords.token)
                   \/ Includes(m, ErrorKeywords.unauthorized)
              THEN ReauthorizeText
              ELSE IF Includes(m, ErrorKeywords.rateLimit) THEN RateLimitText
                   ELSE GenericErrorText(run.result.error)

\* the Gmail API answered the search with 500 Internal Server Error: the
\* message is the generic text
C19_Witness ==
  /\ run.pc = "notified"
  /\ run.search = "status"
  /\ run.result.error = SearchTexts.gmailSearchFailed \o SearchTexts.statusInternalServerError
  /\ run.content = GenericErrorText(SearchTexts.gmailSearchFailed \o SearchTexts.statusInternalServerError)

\* the search answered with no message, or the filter left none
ZeroCandidates ==
  /\ Executed("search") /\ run.search = "messages"
  /\ \/ Len(run.messages) = 0
     \/ Executed("filter") /\ Len(run.filtered) = 0

\* C20: a run whose search finds no message, or whose filter leaves none,
\* returns success with an empty bill list at that step, without executing
\* Fetch, Extract or Persist and without a write of the bill store; its
\* message is the no-bills-found text.
C20_ZeroCandidatesShortCircuit ==
  ZeroCandidates =>
    /\ Returned
    /\ run.result = [success |-> TRUE, bills |-> << >>, error |-> << >>]
    /\ ~Executed("fetch") /\ ~Executed("extract") /\ ~Executed("persist")
    /\ Len(run.messages) = 0 => ~Executed("filter")
    /\ bills = run.billsBefore /\ last = NoCall
    /\ run.pc = "notified" => run.content = NoBillsFoundText

\* the search found two messages and getEmailDetails failed for both: the
\* run reported that no bills were found
C20_Witness ==
  /\ run.pc = "notified"
  /\ Len(run.messages) = 2
  /\ run.trace = <<"authorize", "search", "filter">>
  /\ run.filtered = << >>
  /\ run.result.success
  /\ run.content = NoBillsFoundText

\* C21: a run whose /store request meets a storage fault (BillsDO answers 500)
\* returns a failure that carries an error message, not a success.
C21_PersistFaultAborts ==
  (Executed("persist") /\ run.persist = "fault") =>
    /\ run.result.success = FALSE
    /\ run.result.error # << >>

(***************************************************************************)
(* categorizeBySubject: claims                                             *)
(***************************************************************************)
\* the keywords of a bill type, as the configuration lists them
KeywordsOf(billType) ==
  CASE billType = "electricity" -> {Keywords.electricity, Keywords.power, Keywords.energyBill}
    [] billType = "hot_water" -> {Keywords.hotWater, Keywords.gas, Keywords.heating}
    [] billType = "water" -> {Keywords.waterBill, Keywords.waterUsage}
    [] billType = "internet" -> {Keywords.internet, Keywords.broadband, Keywords.nbn}

\* a keyword of the bill type is a substring of the lower-cased subject
Matches(subject, billType) ==
  \E keyword \in KeywordsOf(billType) : Includes(ToLowerCase(subject), keyword)

TypeOrder == <<"electricity", "hot_water", "water", "internet">>

\* C29: categorizeBySubject returns the first bill type, in the order
\* electricity, hot_water, water, internet, one of whose keywords is a
\* substring of the lower-cased subject, and null when no type has one;
\* "Your Electricity Bill" gives electricity, "Monthly Internet Invoice"
\* internet and "Welcome to our newsletter" null.
C29_FirstMatchingType ==
  fn.op = "categorizeBySubject" =>
    /\ \A t \in 1..4 :
         fn.result = TypeOrder[t] <=>
           /\ Matches(fn.subject, TypeOrder[t])
           /\ \A e \in 1..(t - 1) : ~Matches(fn.subject, TypeOrder[e])
    /\ fn.result = Null <=> \A t \in 1..4 : ~Matches(fn.subject, TypeOrder[t])
    /\ fn.subject = Join(<<Vocabulary.your, Vocabulary.electricity, Vocabulary.bill>>, 1) =>
         fn.result = "electricity"
    /\ fn.subject = Join(<<Vocabulary.monthly, Vocabulary.internet, Vocabulary.invoice>>, 1) =>
         fn.result = "internet"
    /\ fn.subject = Join(<<Vocabulary.welcome, Vocabulary.toOur, Vocabulary.newsletter>>, 1) =>
         fn.result = Null

\* "HOT water Bill" has keywords of hot_water and of water, in capitals in
\* part: it is a hot_water subject
C29_Witness ==
  /\ fn.op = "categorizeBySubject"
  /\ fn.subject = Join(<<Vocabulary.hot, Vocabulary.water, Vocabulary.bill>>, 1)
  /\ Matches(fn.subject, "water")
  /\ fn.result = "hot_water"

\* the messages the Fetch step attempts
Attempted == Slice(run.filtered, FETCH_LIMIT)

\* C22: the output of the Fetch step is exactly the attempted messages that
\* have a PDF attachment and whose fetches succeeded, each once, with its own
\* message id and attachment; a message without a PDF and a message whose
\* fetch fails are dropped, and the step does not fail the run.
C22_FetchDropsOnlyFailures ==
  Executed("fetch") =>
    /\ \A i \in 1..Len(Attempted) :
         run.fetchOuts[i] = "pdf" <=>
           \E k \in 1..Len(run.pdfs) :
             /\ run.pdfs[k].messageId = Attempted[i].messageId
             /\ run.pdfs[k].attachment = DownloadAttachment(Attempted[i].messageId)
    /\ \A k \in 1..Len(run.pdfs) :
         /\ \E i \in 1..Len(Attempted) : run.pdfs[k].messageId = Attempted[i].messageId
         /\ \A j \in 1..Len(run.pdfs) :
              run.pdfs[j].messageId = run.pdfs[k].messageId => j = k
    /\ run.trace[Len(run.trace)] = "fetch" =>
         IF Len(run.pdfs) = 0 THEN Returned /\ run.result.success
         ELSE run.pc = "extract"

\* of two attempted messages the first had a failing fetch and the second a
\* PDF: the PDF of the second went on to the extraction
C22_Witness ==
  /\ run.pc = "extract"
  /\ Len(Attempted) = 2
  /\ run.fetchOuts[1] = "throws"
  /\ run.fetchOuts[2] = "pdf"
  /\ Len(run.pdfs) = 1
  /\ run.pdfs[1].messageId = Attempted[2].messageId

\* the messages of the search whose details the filter could read
Readable == { i \in 1..Len(run.messages) : run.filterOuts[i].kind = "details" }

\* C24: the Filter step keeps every message whose details it could read, in
\* the order of the search, whether categorizeBySubject gave a bill type or
\* null; a kept message without a bill type is attempted by the Fetch step
\* and, when its PDF is downloaded, gets its extraction call.
C24_FilterKeepsUnclassified ==
  /\ Executed("filter") =>
       /\ Len(run.filtered) = Cardinality(Readable)
       /\ \A i \in Readable :
            \E k \in 1..Len(run.filtered) :
              /\ run.filtered[k].messageId = run.messages[i]
              /\ run.filtered[k].subject = run.filterOuts[i].subject
              /\ k = Cardinality({ j \in Readable : j <= i })
       /\ run.trace[Len(run.trace)] = "filter" /\ Readable # {} => run.pc = "fetch"
  /\ Executed("fetch") =>
       \A i \in 1..Len(Attempted) :
         (Attempted[i].subjectHint = Null /\ run.fetchOuts[i] = "pdf") =>
           \E k \in 1..Len(run.pdfs) : run.pdfs[k].messageId = Attempted[i].messageId
  /\ Executed("extract") => Len(run.calls) = Len(run.pdfs)

\* a message with the subject "Welcome to our newsletter" was kept, its PDF
\* was downloaded and parseBillWithGemini was called for it
C24_Witness ==
  /\ Executed("extract")
  /\ \E k \in 1..Len(run.filtered) :
       /\ run.filtered[k].subject = Join(<<Vocabulary.welcome, Vocabulary.toOur, Vocabulary.newsletter>>, 1)
       /\ run.filtered[k].subjectHint = Null
       /\ \E j \in 1..Len(run.pdfs) :
            /\ run.pdfs[j].messageId = run.filtered[k].messageId
            /\ j <= Len(run.calls)

\* the subject of the message a PDF was downloaded from
SubjectOf(messageId) ==
  LET k == CHOOSE k \in 1..Len(run.filtered) : run.filtered[k].messageId = messageId
  IN run.filtered[k].subject

\* C25: the hint parseBillWithGemini is called with for a PDF is the result
\* of categorizeBySubject for the subject of the message the PDF came from,
\* and no hint (undefined) when that result is null.
C25_HintOfOwnMessage ==
  Executed("extract") =>
    \A i \in 1..Len(run.calls) :
      run.calls[i].hint =
        IF CategorizeBySubject(SubjectOf(run.pdfs[i].messageId)) = Null THEN Undefined
        ELSE CategorizeBySubject(SubjectOf(run.pdfs[i].messageId))

\* C23: a run fetches attachments for the first 10 messages of the filtered
\* list at most, so at most 10 PDFs enter Step 5 and at most 10
\* parseBillWithGemini calls are made, however many messages the search found.
C23_AtMostTenFetched ==
  /\ Executed("fetch") =>
       /\ Len(run.fetchOuts) <= 10
       /\ Len(run.fetchOuts) = IF Len(run.filtered) < 10 THEN Len(run.filtered) ELSE 10
       /\ Len(run.pdfs) <= 10
       /\ \A k \in 1..Len(run.pdfs) :
            \E i \in 1..10 :
              i <= Len(run.filtered) /\ run.filtered[i].messageId = run.pdfs[k].messageId
  /\ Executed("extract") => Len(run.calls) <= 10

\* the search found 11 messages and the filter kept them all: the PDFs of the
\* first 10 were downloaded and parsed, the 11th message was not fetched
C23_Witness ==
  /\ Executed("extract")
  /\ Len(run.messages) = 11
  /\ Len(run.filtered) = 11
  /\ Len(run.pdfs) = 10
  /\ Len(run.calls) = 10
  /\ \A k \in 1..10 : run.pdfs[k].messageId # run.filtered[11].messageId

\* a step of the run on which the whole run depends has failed: Step 1, the
\* search, or the storage of Step 6
RunLevelFailure ==
  \/ Executed("authorize") /\ run.token = Undefined
  \/ SearchFailed
  \/ Executed("persist") /\ run.persist \in {"fault", "rejects"}

\* C26: a run that has returned reports success with an empty error when no
\* run-level step failed (with an empty list when no bill was extracted), and
\* reports success false, an empty bill list and an error message when one
\* failed.
C26_SuccessAndFailureDistinct ==
  Returned =>
    IF RunLevelFailure
    THEN /\ run.result.success = FALSE
         /\ run.result.bills = << >>
         /\ run.result.error # << >>
    ELSE /\ run.result.success = TRUE
         /\ run.result.error = << >>
         /\ Len(run.parsed) = 0 => run.result.bills = << >>

\* the texts of one error line
ErrorLines(message) == {ReauthorizeText, RateLimitText, GenericErrorText(message)}

BillSearchOfAllowedUser ==
  /\ hook.op = "webhook"
  /\ hook.request.signature = "valid"
  /\ hook.request.type = "APPLICATION_COMMAND"
  /\ hook.request.userId \in AllowedUserIds
  /\ hook.request.commandName = "bill"
  /\ hook.request.subcommand = "search"

\* C28: /bill search of an authorized user is answered with the deferred
\* response (type 5) and the workflow is handed to ctx.waitUntil to run in the
\* background and send its summary or error as a follow-up.
C28_BillSearchDeferred ==
  BillSearchOfAllowedUser =>
    /\ hook.response.type = 5
    /\ hook.response.background = "workflow"

(***************************************************************************)
(* formatBillSummary: claims                                               *)
(***************************************************************************)
\* the bills of the list that have the type of the label
OfLabel(billList, label) ==
  { i \in 1..Len(billList) : TypeLabel(billList[i].type) = label }

\* the displayed amount, in cents
Displayed(line) == line.amount.dollars * 100 + line.amount.cents

RECURSIVE SumDisplayed(_, _)
SumDisplayed(lines, k) ==
  IF k > Len(lines) THEN 0 ELSE Displayed(lines[k]) + SumDisplayed(lines, k + 1)

RECURSIVE SumOfAll(_, _)
SumOfAll(billList, i) ==
  IF i > Len(billList) THEN 0 ELSE billList[i].amount + SumOfAll(billList, i + 1)

\* C30: for a non-empty list the summary has exactly one line per bill type
\* present, showing a bill of that type than which none of that type has a
\* later issue date, and the total is the sum of the displayed amounts; the
\* four bills 128.45, 32.50, 45.20 and 79.99 give the total 286.14.
C30_TotalOfDisplayed ==
  (fn.op = "formatBillSummary" /\ Len(fn.bills) > 0) =>
    LET lines == fn.result.lines
    IN /\ \A i \in 1..Len(fn.bills) :
            Cardinality({ k \in 1..Len(lines) :
                            lines[k].label = TypeLabel(fn.bills[i].type) }) = 1
       /\ \A k \in 1..Len(lines) :
            \E i \in OfLabel(fn.bills, lines[k].label) :
              /\ Displayed(lines[k]) = fn.bills[i].amount
              /\ lines[k].date = FormatDate(fn.bills[i].issue_date)
              /\ \A j \in OfLabel(fn.bills, lines[k].label) :
                   fn.bills[j].issue_date <= fn.bills[i].issue_date
       /\ fn.result.total.dollars * 100 + fn.result.total.cents = SumDisplayed(lines, 1)
       /\ 0 <= fn.result.total.cents /\ fn.result.total.cents < 100
       /\ { fn.bills[i].amount : i \in 1..Len(fn.bills) } = {12845, 3250, 4520, 7999} /\ Len(fn.bills) = 4
            => fn.result.total = [dollars |-> 286, cents |-> 14]

\* an older and a newer electricity bill and a water bill: the older
\* electricity bill is in neither the lines nor the total
C30_Witness ==
  /\ fn.op = "formatBillSummary"
  /\ Len(fn.bills) = 3
  /\ fn.bills[1].type = "electricity" /\ fn.bills[1].amount = 10000
  /\ fn.bills[2].type = "electricity" /\ fn.bills[2].amount = 12845
  /\ fn.bills[3].type = "water" /\ fn.bills[3].amount = 4520
  /\ Len(fn.result.lines) = 2
  /\ fn.result.total = [dollars |-> 173, cents |-> 65]
  /\ SumOfAll(fn.bills, 1) # SumDisplayed(fn.result.lines, 1)

(***************************************************************************)
(* formatErrorResponse: claims                                             *)
(***************************************************************************)
\* the lower-cased message has the text in it, found character by character
Contains(message, text) ==
  \E i \in 0..(Len(message) - Len(text)) :
    \A j \in 1..Len(text) : ToLowerChar(message[i + j]) = text[j]

\* C31: an error whose lower-cased message contains "oauth", "token" or
\* "unauthorized" gets the reauthorize guidance; otherwise one containing
\* "rate limit" gets the backoff guidance; every other error gets the generic
\* text, which carries the original message.
C31_FormatErrorMapping ==
  fn.op = "formatErrorResponse" =>
    LET reauthorize == \/ Contains(fn.message, <<"o", "a", "u", "t", "h">>)
                       \/ Contains(fn.message, <<"t", "o", "k", "e", "n">>)
                       \/ Contains(fn.message, <<"u", "n", "a", "u", "t", "h", "o", "r", "i", "z", "e", "d">>)
        rateLimit == Contains(fn.message, <<"r", "a", "t", "e", " ", "l", "i", "m", "i", "t">>)
    IN /\ reauthorize => fn.result = ReauthorizeText
       /\ (~reauthorize /\ rateLimit) => fn.result = RateLimitText
       /\ (~reauthorize /\ ~rateLimit) =>
            /\ fn.result.message = fn.message
            /\ fn.result.text = "An error occurred: (message) Please try again or contact support."

\* "Rate Limit token": both kinds of keyword, in capitals and not, and the
\* reauthorize guidance wins
C31_Witness ==
  /\ fn.op = "formatErrorResponse"
  /\ fn.message = <<"R", "a", "t", "e", " ", "L", "i", "m", "i", "t", " ", "t", "o", "k", "e", "n">>
  /\ fn.result = ReauthorizeText

(***************************************************************************)
(* getRecent: claims                                                       *)
(***************************************************************************)
\* the rows of the user in the user's instance whose timestamp is at or after
\* the time of the query less daysBack days
InWindow(userId, daysBack, at) ==
  { r \in bills[BillsDOFor(userId)] :
      r.user_id = userId /\ r.timestamp >= at - daysBack * 86400000 }

LastAdded(n) ==
  LET k == IF n < MAX_MESSAGES THEN n ELSE MAX_MESSAGES
  IN [i \in 1..k |-> n - k + i]

\* C33: after any sequence of add requests, getHistory returns the
\* min(n, 50) messages added last, in the order in which they were added.
C33_LastFiftyRetained ==
  fn.op = "getHistory" =>
    [i \in 1..Len(fn.result) |-> fn.result[i].content] = LastAdded(fn.added)

\* the same of the version that keeps this.messages alone
C33_InMemoryRetained ==
  (fn.op = "getHistory" /\ fn.version = "memory") =>
    [i \in 1..Len(fn.result) |-> fn.result[i].content] = LastAdded(fn.added)

\* the version with table messages never returns more than MAX_MESSAGES - 1
C33_SqlKeepsOneLess ==
  (fn.op = "getHistory" /\ fn.version = "sql") =>
    /\ Len(fn.result) < MAX_MESSAGES
    /\ fn.added < MAX_MESSAGES =>
         [i \in 1..Len(fn.result) |-> fn.result[i].content] = LastAdded(fn.added)

(***************************************************************************)
(* handleDiscordWebhook: the two security layers                           *)
(***************************************************************************)
\* the request has no valid signature, or it is a command of a user whose id
\* is not in the ALLOWED_USER_IDS of the environment (u1,u2)
Unauthorized(request) ==
  \/ request.signature # "valid"
  \/ /\ request.type = "APPLICATION_COMMAND"
     /\ request.userId # Undefined
     /\ request.userId \notin {"u1", "u2"}

\* C34: a request without a valid signature is answered 401 and a command of
\* a user not in ALLOWED_USER_IDS is answered with the unauthorized message;
\* either way no request has gone to a Durable Object or to the AI provider,
\* no task runs in the background, and the tables are as they were.
C34_UnauthorizedTouchesNothing ==
  /\ [](hook.op = "webhook" /\ Unauthorized(hook.request) =>
          /\ IF hook.request.signature # "valid"
             THEN hook.response.status = 401
             ELSE hook.response.content = "You are not authorized to use this bot."
          /\ hook.response.calls = << >>
          /\ hook.response.background = "none"
          /\ hook.followUps = << >>)
  /\ [][(hook'.op = "webhook" /\ Unauthorized(hook'.request)) =>
          UNCHANGED <<bills, tokens, conv>>]_vars

\* /clear of u9, with a valid signature: refused, with no request to the
\* conversation store
C34_Witness ==
  /\ hook.op = "webhook"
  /\ hook.request.signature = "valid"
  /\ hook.request.type = "APPLICATION_COMMAND"
  /\ hook.request.userId = "u9"
  /\ hook.request.commandName = "clear"
  /\ hook.response.content = "You are not authorized to use this bot."
  /\ hook.response.calls = << >>

(***************************************************************************)
(* The run: collaborators that do not answer                               *)
(***************************************************************************)
\* C35: a call that gets no answer is cut off by a timeout of its stage and
\* counted as that stage's failure, so a run whose collaborator never answers
\* still goes on to its result: while it awaits, a step of the run is enabled.
C35_StageTimeout ==
  run.pc = "awaiting" => ENABLED (NextRun \/ RunStall)

C36_SurvivesWhenLater ==
  [][(/\ calls' = calls + 1
      /\ Cardinality(BatchIds(last'.batch)) <= MAX_BILLS_PER_USER
      /\ \A r \in bills[BillsDOFor(last'.userId)] : r.timestamp < now)
     => \A x \in last'.removed : x.gmail_message_id \notin BatchIds(last'.batch)]_vars

(***************************************************************************)
(* OAuthTokensDO: a store during a refresh                                 *)
(***************************************************************************)
\* C37: a storeTokens call for a user that completes while a refreshIfNeeded
\* of that user awaits the token endpoint is not lost: when the refresh has
\* finished (and nothing has written since), the record is the one that
\* store wrote.
C37_StoreSurvivesRefresh ==
  \A p \in Procs :
    (/\ Refreshed(p)
     /\ lastStore.op = "store"
     /\ TokensDOFor(lastStore.userId) = req[p].inst
     /\ req[p].seen < lastStore.wrote
     /\ lastStore.wrote < req[p].wrote
     /\ req[p].wrote = writes)
    => tokens[req[p].inst] =
         { [user_id |-> lastStore.userId,
            access_token |-> lastStore.accessToken,
            refresh_token |-> lastStore.refreshToken,
            expires_at |-> ExpiresAt(lastStore.at, lastStore.expiresIn)] }

(***************************************************************************)
(* BillsDO: a request with a statement that throws                         *)
(***************************************************************************)
\* C38: storeBills is all-or-nothing: when the write of one bill of the
\* request fails, the instance holds exactly the rows it held before the
\* call, none of the request's bills and no prune.
C38_AllOrNothing ==
  last.op = "storeBillsFault" => bills[BillsDOFor(last.userId)] = last.before

\* a request that fails has pruned nothing: every row the instance held
\* before the call is still there, by id, and the rows written are those of
\* the bills before the one that failed
C38_FaultPrunesNothing ==
  last.op = "storeBillsFault" =>
    /\ \A b \in last.before : \E r \in bills[BillsDOFor(last.userId)] : r.id = b.id
    /\ \A r \in bills[BillsDOFor(last.userId)] \ last.before :
         \E i \in 1..(last.threw - 1) :
           r.gmail_message_id = last.batch[i].gmail_message_id

(***************************************************************************)
(* OAuthTokensDO: one instance, more than one user id                      *)
(***************************************************************************)
\* C39: an instance holds at most one record per user id, and a getTokens or
\* refreshIfNeeded request reads, and a refresh updates, the record of the
\* user it is made for (the user of the instance), also after storeTokens
\* requests with more than one user id on the instance.
C39_OwnRecord ==
  /\ [](/\ \A d \in Users : \A r1, r2 \in tokens[d] :
              r1.user_id = r2.user_id => r1 = r2
        /\ \A p \in Procs :
              req[p].found => req[p].row.user_id = req[p].inst)
  /\ [][\A p \in Procs :
          (req[p].pc = "awaiting" /\ req'[p].pc = "done" /\ req'[p].reply.ok) =>
            \A r \in tokens[req[p].inst] :
              r.user_id # req[p].inst => r \in tokens'[req[p].inst]]_vars

\* an instance never holds two records of one user id
C39_OnePerUserId ==
  \A d \in Users : \A r1, r2 \in tokens[d] : r1.user_id = r2.user_id => r1 = r2

(***************************************************************************)
(* handleOAuthCallback: whose flow stores tokens                           *)
(***************************************************************************)
\* the bot has answered a /bill connect of user u, who is allowed, with the
\* authorization link
IssuedTo(u) ==
  /\ hook.op = "webhook"
  /\ hook.request.userId = u
  /\ hook.request.subcommand = "connect"
  /\ u \in {"u1", "u2"}
  /\ hook.response.content = "Connect Your Gmail Account"

\* C40: a record of user u is only created or overwritten by an
\* authorization flow u started with an authorized /bill connect: a callback
\* request whose state names u, without the bot having issued a state to u,
\* stores nothing under u.
C40_OnlyIssuedFlowsStore ==
  \A u \in Users : tokens[TokensDOFor(u)] # {} => IssuedTo(u)

====
